---- MODULE Spec2Model ----
(***************************************************************************)
(* Model of STAC5Manager (src/src/stac5_manager.py): the drive client, its *)
(* motion state machine and its background status poller, as threads that  *)
(* interleave at every read or write of shared state.                      *)
(*                                                                         *)
(* Time is in milliseconds.  Optional values are sequences: <<>> is None   *)
(* and <<v>> is the value v.  A command is <<mnemonic>> or                 *)
(* <<mnemonic, argument>>; a response is None (nothing usable was read) or *)
(* a tuple <<text>> / <<key, value>>.                                      *)
(***************************************************************************)
EXTENDS Integers, Sequences, FiniteSets, TLC

\* ------------------------------------------------------------------ bounds
StartTime == 3000
TickStep == 500
MaxTicks == 1
MaxSJ == 2
MaxCalls == 3
MaxConcCalls == 2
MaxPolledCalls == 1
MaxErrs == 2
MaxEncoder == 3
MaxAlarmBits == 17
MaxRelayCalls == 3
MaxPolls == 1
MaxStream == 4
MaxFaults == 1
MaxConnects == 2
MaxSends == 1

\* ------------------------------------------------------- program constants
JogDecelLockout == 500
MinCommandInterval == 500
MotionWindow == 3000
FullPollEvery == 5
DefaultJogVelocity == 20
DefaultMoveVelocity == 15
DefaultAcceleration == 100
DefaultDeceleration == 100
\* velocities are in tenths of a revolution per second
\* the poll loop's sleeps (line 713, and start_polling's default interval)
FastInterval == 30
PollInterval == 150
MinVelocity == 1
MaxVelocity == 200

MaxTime == StartTime + MaxTicks * TickStep

Callers == {"c1", "c2"}
Pollers == {"p1", "p2"}
Threads == Callers \cup Pollers
NoThread == "none"

Positions == {-1, 3}
Directions == {1, -1}
StepArgs == {-3}
VelocityArgs == {5, 250}

None == <<>>
Some(v) == <<v>>

VARIABLES
    now,                    \* time.time()
    connected,              \* self._connected
    socket,                 \* self.socket is not None
    lock,                   \* holder of self._lock, or NoThread
    polling,                \* self._polling
    poll_thread,            \* self._poll_thread: None or Some(thread)
    status,                 \* self.status
    last_move_time,         \* self._last_move_time
    last_move_command_time, \* self._last_move_command_time
    jog_active,             \* self._jog_active
    jog_stop_time,          \* self._jog_stop_time
    pc,                     \* per thread: the statement it is at
    op,                     \* per caller: the public method it is running
    arg,                    \* per caller: that method's argument
    io,                     \* per thread: its send_command frame
    loc,                    \* per thread: local variables of the running method
    sent,                   \* per caller: frames its current call has written
    ret,                    \* per caller: the current call's return value
    errs,                   \* per thread: error callbacks its current call (or poll cycle) made
    calls,                  \* number of calls the callers may still start
    wire,                   \* frames seen by the drive: CJ seen, SJ since last CJ, last DI
    hist,                   \* when jog_stop was last called, when a move last passed
                            \* the rate limit; the alarm code the drive last
                            \* reported and the fault notifications made for it;
                            \* the poll threads running when stop_polling
                            \* cleared the flag
    sm,                     \* the SerialManager object's fields
    rpc,                    \* per relay thread: the statement it is at
    rloc,                   \* per relay thread: its local variables
    written,                \* what was written to the serial port, and by which thread
    inbound,                \* the bytes the device has still to deliver to the port
    cb,                     \* the relay's callback invocations
    alarm_in,               \* _decode_alarm's argument
    alarm_out               \* _decode_alarm's result, None before it is called

\* the command relay, and the alarm decoder taken alone
relay == <<sm, rpc, rloc, written, inbound, cb>>
decoder == <<alarm_in, alarm_out>>
aux == <<relay, decoder>>

\* the drive client
drive == <<now, connected, socket, lock, polling, poll_thread, status,
           last_move_time, last_move_command_time, jog_active, jog_stop_time,
           pc, op, arg, io, loc, sent, ret, errs, calls, wire, hist>>

vars == <<drive, aux>>

mgr == <<connected, socket, polling, poll_thread, status, last_move_time,
         last_move_command_time, jog_active, jog_stop_time>>

\* STAC5Status(): the dataclass defaults
STAC5Status ==
    [connected |-> FALSE, encoder_position |-> 0, alarm_code |-> "0000",
     status_code |-> "0000", is_moving |-> FALSE, motor_enabled |-> FALSE,
     home_position |-> None, well_position |-> None,
     jog_velocity |-> DefaultJogVelocity, move_velocity |-> DefaultMoveVelocity]

\* a send_command frame: where it is, its command, its result, and what the
\* socket raised in it: "none"; "write" or "read" for an exception that reached
\* the except branch; "timeout" for the socket.timeout caught at line 284
IdleIO == [st |-> "idle", cmd |-> <<>>, resp |-> None, exc |-> "none"]
NoLoc == [current |-> None, now |-> 0, accepted |-> FALSE, cleared |-> FALSE]
\* _poll_loop's locals at its start (lines 653-654), with the book-keeping of
\* its cycles: the sleep the loop test is reached from (0 when it is not
\* reached from a sleep), the consecutive in-motion cycles started since the
\* last cycle that sent AL, the cycles ended since AL was last sent, and the
\* status callbacks made in the cycle
PollLoc == [last_alarm |-> "0000", full_poll_counter |-> 0, in_motion_mode |-> FALSE,
            slept |-> 0, motion_run |-> 0, since_alarm |-> 0, published |-> 0]

\* the threads of the command relay: the application calling its public
\* methods, the read loops and the status poll loops connect() starts
Apps == {"u1", "u2"}
Readers == {"r1", "r2"}
StatusPollers == {"s1", "s2"}
RelayThreads == Apps \cup Readers \cup StatusPollers

\* SerialManager.__init__: the fields of a new manager (the lock is not a
\* field here: every with block of the relay is one step)
SerialManager ==
    [state |-> "disconnected", serial |-> "none", stop_event |-> FALSE,
     command_queue |-> <<>>, last_status |-> None,
     read_thread |-> None, poll_thread |-> None]

\* a relay thread's locals: _read_loop's buffer and the command it took from
\* the queue; for the application, the method it called last, its argument
\* and its result, the calls it may still make, and the commands
\* send_command has accepted from it, in order
NoLocals ==
    [buffer |-> <<>>, command |-> None,
     op |-> "none", arg |-> None, ret |-> None, calls |-> 0, accepted |-> <<>>]

\* no callback has been invoked
NoCallbacks == [response |-> <<>>, status |-> 0, error |-> 0, connection |-> <<>>]

\* The state after SerialManager(): no thread but the application
RelayIdle ==
    /\ sm = SerialManager
    /\ rpc = [t \in RelayThreads |-> IF t \in Apps THEN "idle" ELSE "off"]
    /\ rloc = [t \in RelayThreads |->
                 IF t = "u1" THEN [NoLocals EXCEPT !.calls = MaxRelayCalls]
                                ELSE NoLocals]
    /\ written = <<>>
    /\ inbound = <<>>
    /\ cb = NoCallbacks

\* _decode_alarm has not been called
DecoderIdle ==
    /\ alarm_in = 0
    /\ alarm_out = None

\* The state after STAC5Manager() (lines 43-82)
FreshDrive ==
    /\ now = StartTime
    /\ connected = FALSE
    /\ socket = FALSE
    /\ lock = NoThread
    /\ polling = FALSE
    /\ poll_thread = None
    /\ status = STAC5Status
    /\ last_move_time = 0
    /\ last_move_command_time = 0
    /\ jog_active = FALSE
    /\ jog_stop_time = 0
    /\ pc = [t \in Threads |-> IF t \in Callers THEN "idle" ELSE "off"]
    /\ op = [t \in Callers |-> "none"]
    /\ arg = [t \in Callers |-> 0]
    /\ io = [t \in Threads |-> IdleIO]
    /\ loc = [t \in Threads |-> IF t \in Callers THEN NoLoc ELSE PollLoc]
    /\ sent = [t \in Callers |-> <<>>]
    /\ ret = [t \in Callers |-> None]
    /\ errs = [t \in Threads |-> 0]
    /\ calls = MaxCalls
    /\ wire = [cj |-> FALSE, sj |-> 0, di |-> 0]
    /\ hist = [jog_stop_at |-> 0, move_at |-> 0,
               fault_code |-> "0000", fault_notes |-> 0, told |-> {}]

\* a new drive client, a new relay, the decoder not called
Fresh ==
    /\ FreshDrive
    /\ RelayIdle
    /\ DecoderIdle

\* The state after a connect() in which the drive answered every command
\* (lines 169-179 and _init_drive), the encoder reading 0
Connected ==
    /\ now = StartTime
    /\ connected = TRUE
    /\ socket = TRUE
    /\ lock = NoThread
    /\ polling = FALSE
    /\ poll_thread = None
    /\ status = [STAC5Status EXCEPT !.connected = TRUE, !.motor_enabled = TRUE]
    /\ last_move_time = 0
    /\ last_move_command_time = 0
    /\ jog_active = FALSE
    /\ jog_stop_time = 0
    /\ pc = [t \in Threads |-> IF t \in Callers THEN "idle" ELSE "off"]
    /\ op = [t \in Callers |-> "none"]
    /\ arg = [t \in Callers |-> 0]
    /\ io = [t \in Threads |-> IdleIO]
    /\ loc = [t \in Threads |-> IF t \in Callers THEN NoLoc ELSE PollLoc]
    /\ sent = [t \in Callers |-> <<>>]
    /\ ret = [t \in Callers |-> None]
    /\ errs = [t \in Threads |-> 0]
    /\ calls = MaxCalls
    /\ wire = [cj |-> FALSE, sj |-> 0, di |-> 0]
    /\ hist = [jog_stop_at |-> 0, move_at |-> 0,
               fault_code |-> "0000", fault_notes |-> 0, told |-> {}]
    /\ RelayIdle
    /\ DecoderIdle

Init == Fresh \/ Connected

\* ------------------------------------------------------------ pure helpers

\* the translation rounding down in place of toward zero
EncoderToMotorFloor(p) == (5 * p) \div 2

\* _encoder_to_motor: int(encoder_counts * 2.5), int() truncating toward zero
EncoderToMotor(p) ==
    IF p >= 0 THEN (5 * p) \div 2 ELSE -((5 * (-p)) \div 2)

\* The drive's possible answers to a command, as read by send_command: None
\* when the read times out with nothing usable, "?" when the drive rejects
\* the command, "%" as the plain acknowledgement, "KEY=value" for a read.
Answers(c) ==
    CASE c[1] \in {"EP", "IE"} /\ Len(c) = 1 ->
            {None, <<"?">>} \cup {<<c[1], v>> : v \in Positions}
      [] c[1] = "SC" -> {None, <<"SC", "0001">>, <<"SC", "0011">>}
      [] c[1] = "AL" -> {None, <<"AL", "0000">>, <<"AL", "0004">>}
      [] OTHER -> {None, <<"%">>}

\* get_encoder_position / get_immediate_encoder after send_command returned r:
\* "KEY=<digits>" parses to the number, any other answer to None
ParsePosition(r) ==
    IF Len(r) = 2 THEN Some(r[2]) ELSE None

\* get_status_code / get_alarm_code after send_command returned r
ParseCode(r) ==
    IF Len(r) = 2 THEN Some(r[2]) ELSE None

\* Bit 0 of the status code: motor enabled; bit 4 (0x0010): in motion
StatusEnabled(sc) == sc \in {"0001", "0011"}
StatusMoving(sc) == sc \in {"0010", "0011"}

Bump(n) == IF n < MaxErrs THEN n + 1 ELSE n

\* ------------------------------------------------------------ _decode_alarm

\* the table of lines 106-123: the message of bit i is entry i + 1
AlarmMessages ==
    <<"Position Limit", "CCW Limit", "CW Limit", "Over Temp",
      "Internal Voltage", "Over Voltage", "Under Voltage", "Over Current",
      "Open Motor Winding", "Bad Encoder", "Comm Error", "Bad Flash",
      "No Move", "Blank Q Segment", "No Motor Connected", "Motor Disabled">>

\* the bits the table knows
KnownAlarmBits == Len(AlarmMessages)

\* an alarm code that is not a hexadecimal number
NonHex == -1

\* alarm codes, by the number int(alarm_code, 16) reads
AlarmCodes == 0..(2^MaxAlarmBits - 1) \cup {NonHex}

\* code & bit (line 137)
BitSet(code, i) == (code \div 2^i) % 2 = 1

\* lines 134-138: the messages of the table's bits set in code, from bit i
\* on, in the order of the table
RECURSIVE KnownAlarms(_, _)
KnownAlarms(code, i) ==
    IF i >= KnownAlarmBits THEN <<>>
    ELSE IF BitSet(code, i) THEN <<AlarmMessages[i + 1]>> \o KnownAlarms(code, i + 1)
    ELSE KnownAlarms(code, i + 1)

\* _decode_alarm (lines 103-141); the result is the sequence of the parts
\* that line 139 joins with ", ", "Unknown" standing for "Unknown (<code>)"
DecodeAlarm(code) ==
    IF code = NonHex THEN <<"Unknown">>
    ELSE IF code = 0 THEN <<"No Alarm">>
    ELSE IF KnownAlarms(code, 0) # <<>> THEN KnownAlarms(code, 0)
    ELSE <<"Unknown">>

\* ---------------------------------------------------------- send_command

\* A caller hands command c to send_command; line 250: when not connected, or
\* without a socket, send_command returns None at once
Issue(t, c) ==
    io' = [io EXCEPT ![t] = IF ~connected \/ ~socket
                              THEN [st |-> "done", cmd |-> c, resp |-> None, exc |-> "none"]
                              ELSE [st |-> "lock", cmd |-> c, resp |-> None, exc |-> "none"]]
\* send_command has returned to the caller
Returned(t) == io[t].st = "done"
Response(t) == io[t].resp
Finish(t) == io' = [io EXCEPT ![t] = IdleIO]

\* the lock taken without waiting for its holder
LockIgnored == TRUE

\* line 253: self._lock can be acquired
LockFree == lock = NoThread

\* the frame reached the drive: book-keeping of what was written
Transmit(t, c) ==
    /\ sent' = IF t \in Callers THEN [sent EXCEPT ![t] = Append(@, c)] ELSE sent
    /\ wire' = CASE c[1] = "CJ" -> [wire EXCEPT !.cj = TRUE, !.sj = 0]
                 [] c[1] = "DI" -> [wire EXCEPT !.di = c[2]]
                 [] c[1] = "SJ" -> [wire EXCEPT !.sj = IF @ < MaxSJ THEN @ + 1 ELSE @]
                 [] OTHER -> wire

\* the except branch of send_command without the error callback
CommandFailedSilent(t, step) ==
    /\ errs' = errs
    /\ connected' = FALSE
    /\ status' = [status EXCEPT !.connected = FALSE]
    /\ lock' = NoThread
    /\ io' = [io EXCEPT ![t] = [@ EXCEPT !.st = "done", !.resp = None, !.exc = step]]

\* the except branch of send_command (lines 291-295), entered from the socket
\* call of the given step raising; leaving the with block releases the lock
CommandFailed(t, step) ==
    /\ errs' = [errs EXCEPT ![t] = Bump(@)]
    /\ connected' = FALSE
    /\ status' = [status EXCEPT !.connected = FALSE]
    /\ lock' = NoThread
    /\ io' = [io EXCEPT ![t] = [@ EXCEPT !.st = "done", !.resp = None, !.exc = step]]

\* lines 253-266: take the lock, drain stale bytes, build the packet, sendall
SendWrite(t) ==
    /\ io[t].st = "lock"
    /\ LockFree
    /\ socket
    /\ lock' = t
    /\ Transmit(t, io[t].cmd)
    /\ io' = [io EXCEPT ![t] = [@ EXCEPT !.st = "read"]]
    /\ UNCHANGED <<now, mgr, pc, op, arg, loc, ret, errs, calls, hist, aux>>

\* lines 253-266 raising (the socket was closed, or the network failed) before
\* the frame was written
SendWriteRaises(t) ==
    /\ io[t].st = "lock"
    /\ LockFree
    /\ CommandFailed(t, "write")
    /\ UNCHANGED <<now, socket, polling, poll_thread, last_move_time,
                   last_move_command_time, jog_active, jog_stop_time,
                   pc, op, arg, loc, sent, ret, calls, wire, hist, aux>>

\* the read loop handling its timeout as the except branch handles a failure
SendReadTimeoutFails(t) ==
    /\ io[t].st = "read"
    /\ socket
    /\ \E r \in Answers(io[t].cmd) :
          IF r = None
            THEN /\ errs' = [errs EXCEPT ![t] = Bump(@)]
                 /\ connected' = FALSE
                 /\ status' = [status EXCEPT !.connected = FALSE]
                 /\ io' = [io EXCEPT ![t] = [@ EXCEPT !.st = "done", !.resp = None,
                                                     !.exc = "timeout"]]
            ELSE /\ io' = [io EXCEPT ![t] = [@ EXCEPT !.st = "done", !.resp = r]]
                 /\ UNCHANGED <<errs, connected, status>>
    /\ lock' = NoThread
    /\ UNCHANGED <<now, socket, polling, poll_thread, last_move_time,
                   last_move_command_time, jog_active, jog_stop_time,
                   pc, op, arg, loc, sent, ret, calls, wire, hist, aux>>

\* lines 269-289: read until a terminator or the timeout (lines 284-285, which
\* leave the loop with what was received: nothing usable, parsed to None at
\* lines 149-150), parse, return
SendRead(t) ==
    /\ io[t].st = "read"
    /\ socket
    /\ \E r \in Answers(io[t].cmd) :
          io' = [io EXCEPT ![t] = [@ EXCEPT !.st = "done", !.resp = r,
                                          !.exc = IF r = None THEN "timeout" ELSE "none"]]
    /\ lock' = NoThread
    /\ UNCHANGED <<now, mgr, pc, op, arg, loc, sent, ret, errs, calls, wire, hist, aux>>

\* lines 269-289 raising after the frame was written
SendReadRaises(t) ==
    /\ io[t].st = "read"
    /\ CommandFailed(t, "read")
    /\ UNCHANGED <<now, socket, polling, poll_thread, last_move_time,
                   last_move_command_time, jog_active, jog_stop_time,
                   pc, op, arg, loc, sent, ret, calls, wire, hist, aux>>

\* ------------------------------------------------------------ call frames

\* Which public methods a thread calls, with which arguments
CallerOps(t) ==
    IF t = "c1"
      THEN {"connect", "disconnect", "start_polling", "jog_start", "jog_stop",
            "stop", "stop_kill", "move_relative", "move_to_position",
            "save_home", "save_well", "go_home", "go_well",
            "set_jog_velocity", "set_move_velocity"}
      ELSE {"jog_start", "jog_stop", "move_relative"}

\* thread t, idle, calls method o with argument a
Begin(t, o, a) ==
    /\ pc[t] = "idle"
    /\ o \in CallerOps(t)
    /\ calls > 0
    /\ op' = [op EXCEPT ![t] = o]
    /\ arg' = [arg EXCEPT ![t] = a]
    /\ calls' = calls - 1

Goto(t, l) == pc' = [pc EXCEPT ![t] = l]

\* the method returns v
Done(t, v) ==
    /\ pc' = [pc EXCEPT ![t] = "done"]
    /\ ret' = [ret EXCEPT ![t] = v]

\* the caller takes the result; its frame is gone
Return(t) ==
    /\ pc[t] = "done"
    /\ pc' = [pc EXCEPT ![t] = "idle"]
    /\ op' = [op EXCEPT ![t] = "none"]
    /\ arg' = [arg EXCEPT ![t] = 0]
    /\ loc' = [loc EXCEPT ![t] = NoLoc]
    /\ sent' = [sent EXCEPT ![t] = <<>>]
    /\ ret' = [ret EXCEPT ![t] = None]
    /\ errs' = [errs EXCEPT ![t] = 0]
    /\ UNCHANGED <<now, mgr, lock, io, calls, wire, hist, aux>>

\* time passes
Tick ==
    /\ now + TickStep <= MaxTime
    /\ now' = now + TickStep
    /\ UNCHANGED <<mgr, lock, pc, op, arg, io, loc, sent, ret, errs, calls, wire, hist, aux>>

\* --------------------------------------------------------------- jogging

\* jog_start's two guards (lines 451 and 456-458): TRUE when the call is rejected
JogAlreadyActive == jog_active
\* the lockout comparing with <= in place of <
JogLockedOutInclusive == now - jog_stop_time <= JogDecelLockout
JogLockedOut == now - jog_stop_time < JogDecelLockout

\* jog_start restarting the lockout when it rejects a call
JogStartCallRestartsLockout(t, d) ==
    /\ Begin(t, "jog_start", d)
    /\ IF JogAlreadyActive \/ JogLockedOut
         THEN Done(t, Some(FALSE)) /\ jog_stop_time' = now
         ELSE Goto(t, "js_accept") /\ UNCHANGED <<ret, jog_stop_time>>
    /\ UNCHANGED <<now, connected, socket, polling, poll_thread, status,
                   last_move_time, last_move_command_time, jog_active,
                   lock, io, loc, sent, errs, wire, hist, aux>>

\* jog_start, lines 450-460
JogStartCall(t, d) ==
    /\ Begin(t, "jog_start", d)
    /\ IF JogAlreadyActive \/ JogLockedOut
         THEN Done(t, Some(FALSE))
         ELSE Goto(t, "js_accept") /\ UNCHANGED ret
    /\ UNCHANGED <<now, mgr, lock, io, loc, sent, errs, wire, hist, aux>>

\* the other threads see the jog-active flag cleared under a running jog_start
ClearedUnder(t) ==
    [u \in Threads |->
        IF u \in Callers /\ u # t /\ loc[u].accepted
          THEN [loc[u] EXCEPT !.cleared = TRUE] ELSE loc[u]]

\* jog_start sending the direction without marking the jog active first
JogStartAcceptUnmarked(t) ==
    /\ pc[t] = "js_accept"
    /\ loc' = [loc EXCEPT ![t] = [@ EXCEPT !.accepted = TRUE]]
    /\ Issue(t, <<"DI", IF arg[t] >= 0 THEN 1 ELSE -1>>)
    /\ Goto(t, "js_di")
    /\ UNCHANGED <<now, mgr, lock, op, arg, sent, ret, errs, calls, wire, hist, aux>>

\* jog_start, lines 463-467: mark active, then send the direction
JogStartAccept(t) ==
    /\ pc[t] = "js_accept"
    /\ jog_active' = TRUE
    /\ loc' = [loc EXCEPT ![t] = [@ EXCEPT !.accepted = TRUE]]
    /\ Issue(t, <<"DI", IF arg[t] >= 0 THEN 1 ELSE -1>>)
    /\ Goto(t, "js_di")
    /\ UNCHANGED <<now, connected, socket, polling, poll_thread, status,
                   last_move_time, last_move_command_time, jog_stop_time,
                   lock, op, arg, sent, ret, errs, calls, wire, hist, aux>>

\* jog_start, line 470
JogStartSpeed(t) ==
    /\ pc[t] = "js_di"
    /\ Returned(t)
    /\ Issue(t, <<"JS", status.jog_velocity>>)
    /\ Goto(t, "js_js")
    /\ UNCHANGED <<now, mgr, lock, op, arg, loc, sent, ret, errs, calls, wire, hist, aux>>

\* jog_start, line 473
JogStartCommence(t) ==
    /\ pc[t] = "js_js"
    /\ Returned(t)
    /\ Issue(t, <<"CJ">>)
    /\ Goto(t, "js_cj")
    /\ UNCHANGED <<now, mgr, lock, op, arg, loc, sent, ret, errs, calls, wire, hist, aux>>

\* jog_start returning False on a failed CJ without the roll-back
JogStartResultNoRollback(t) ==
    /\ pc[t] = "js_cj"
    /\ Returned(t)
    /\ IF Response(t) # None
         THEN /\ status' = [status EXCEPT !.is_moving = TRUE]
              /\ last_move_time' = now
              /\ Done(t, Some(TRUE))
         ELSE /\ Done(t, Some(FALSE))
              /\ UNCHANGED <<status, last_move_time>>
    /\ Finish(t)
    /\ UNCHANGED <<now, connected, socket, polling, poll_thread, jog_active,
                   last_move_command_time, jog_stop_time,
                   lock, op, arg, loc, sent, errs, calls, wire, hist, aux>>

\* jog_start, lines 474-481
JogStartResult(t) ==
    /\ pc[t] = "js_cj"
    /\ Returned(t)
    /\ IF Response(t) # None
         THEN /\ status' = [status EXCEPT !.is_moving = TRUE]
              /\ last_move_time' = now
              /\ Done(t, Some(TRUE))
              /\ UNCHANGED <<jog_active, loc>>
         ELSE /\ jog_active' = FALSE
              /\ loc' = ClearedUnder(t)
              /\ Done(t, Some(FALSE))
              /\ UNCHANGED <<status, last_move_time>>
    /\ Finish(t)
    /\ UNCHANGED <<now, connected, socket, polling, poll_thread,
                   last_move_command_time, jog_stop_time,
                   lock, op, arg, sent, errs, calls, wire, hist, aux>>

\* jog_stop leaving the jog-active flag for later
JogStopClearLate ==
    /\ jog_stop_time' = now
    /\ status' = [status EXCEPT !.is_moving = FALSE]
    /\ UNCHANGED jog_active

\* jog_stop, lines 486-488: clear the state first
JogStopClear ==
    /\ jog_active' = FALSE
    /\ jog_stop_time' = now
    /\ status' = [status EXCEPT !.is_moving = FALSE]

\* jog_stop sending SJ only for a jog it finds active
JogStopCallOnce(t) ==
    /\ Begin(t, "jog_stop", 0)
    /\ JogStopClear
    /\ loc' = ClearedUnder(t)
    /\ hist' = [hist EXCEPT !.jog_stop_at = now]
    /\ IF jog_active
         THEN Issue(t, <<"SJ">>)
         ELSE io' = [io EXCEPT ![t] = [st |-> "done", cmd |-> <<"SJ">>, resp |-> None,
                                          exc |-> "none"]]
    /\ Goto(t, "jx_sj")
    /\ UNCHANGED <<now, connected, socket, polling, poll_thread, last_move_time,
                   last_move_command_time, lock, sent, ret, errs, wire, aux>>

\* jog_stop, lines 486-491
JogStopCall(t) ==
    /\ Begin(t, "jog_stop", 0)
    /\ JogStopClear
    /\ loc' = ClearedUnder(t)
    /\ hist' = [hist EXCEPT !.jog_stop_at = now]
    /\ Issue(t, <<"SJ">>)
    /\ Goto(t, "jx_sj")
    /\ UNCHANGED <<now, connected, socket, polling, poll_thread, last_move_time,
                   last_move_command_time, lock, sent, ret, errs, wire, aux>>

\* jog_stop, line 493
JogStopResult(t) ==
    /\ pc[t] = "jx_sj"
    /\ Returned(t)
    /\ Done(t, Some(TRUE))
    /\ Finish(t)
    /\ UNCHANGED <<now, mgr, lock, op, arg, loc, sent, errs, calls, wire, hist, aux>>

\* stop (kind "ST") and stop_kill (kind "SK"), lines 421 and 429
StopCall(t, kind) ==
    /\ Begin(t, IF kind = "ST" THEN "stop" ELSE "stop_kill", 0)
    /\ Issue(t, <<kind>>)
    /\ Goto(t, "st_cmd")
    /\ UNCHANGED <<now, mgr, lock, loc, sent, ret, errs, wire, hist, aux>>

\* stop and stop_kill updating the local state only when the drive answered
StopResultOnlyOnAnswer(t) ==
    /\ pc[t] = "st_cmd"
    /\ Returned(t)
    /\ IF Response(t) # None
         THEN /\ jog_active' = FALSE
              /\ jog_stop_time' = now
              /\ status' = [status EXCEPT !.is_moving = FALSE]
              /\ loc' = ClearedUnder(t)
         ELSE UNCHANGED <<jog_active, jog_stop_time, status, loc>>
    /\ Done(t, Some(Response(t) # None))
    /\ Finish(t)
    /\ UNCHANGED <<now, connected, socket, polling, poll_thread, last_move_time,
                   last_move_command_time, lock, op, arg, sent, errs, calls,
                   wire, hist, aux>>

\* stop and stop_kill, lines 422-425 and 430-433
StopResult(t) ==
    /\ pc[t] = "st_cmd"
    /\ Returned(t)
    /\ jog_active' = FALSE
    /\ jog_stop_time' = now
    /\ status' = [status EXCEPT !.is_moving = FALSE]
    /\ loc' = ClearedUnder(t)
    /\ Done(t, Some(Response(t) # None))
    /\ Finish(t)
    /\ UNCHANGED <<now, connected, socket, polling, poll_thread, last_move_time,
                   last_move_command_time, lock, op, arg, sent, errs, calls,
                   wire, hist, aux>>

\* ----------------------------------------------------------------- moves

\* the rate limit of move_relative and move_to_position (lines 510 and 533):
\* TRUE when the call is rejected
RateLimited == now - last_move_command_time < MinCommandInterval

\* the methods that pass through the rate limit
MoveOps == {"move_relative", "move_to_position", "go_home", "go_well"}

\* move_relative, lines 509-512
MoveRelativeCall(t, steps) ==
    /\ Begin(t, "move_relative", steps)
    /\ IF RateLimited
         THEN Done(t, Some(FALSE)) /\ UNCHANGED <<loc, hist, aux>>
         ELSE /\ Goto(t, "mr_stamp")
              /\ loc' = [loc EXCEPT ![t] = [@ EXCEPT !.now = now, !.accepted = TRUE]]
              /\ hist' = [hist EXCEPT !.move_at = now]
              /\ UNCHANGED ret
    /\ UNCHANGED <<now, mgr, lock, io, sent, errs, wire, aux>>

\* the accepted move leaving the rate-limit timestamp alone
StampNever(t) == UNCHANGED last_move_command_time

\* line 513 and line 536: self._last_move_command_time = now
StampMove(t) == last_move_command_time' = loc[t].now

\* move_relative, lines 513-516
MoveRelativeStamp(t) ==
    /\ pc[t] = "mr_stamp"
    /\ StampMove(t)
    /\ Issue(t, <<"VE", status.move_velocity>>)
    /\ Goto(t, "mr_ve")
    /\ UNCHANGED <<now, connected, socket, polling, poll_thread, status,
                   last_move_time, jog_active, jog_stop_time,
                   lock, op, arg, loc, sent, ret, errs, calls, wire, hist, aux>>

\* move_relative, line 519
MoveRelativeDistance(t) ==
    /\ pc[t] = "mr_ve"
    /\ Returned(t)
    /\ Issue(t, <<"DI", arg[t]>>)
    /\ Goto(t, "mr_di")
    /\ UNCHANGED <<now, mgr, lock, op, arg, loc, sent, ret, errs, calls, wire, hist, aux>>

\* move_relative, line 522
MoveRelativeFeed(t) ==
    /\ pc[t] = "mr_di"
    /\ Returned(t)
    /\ Issue(t, <<"FL">>)
    /\ Goto(t, "mr_fl")
    /\ UNCHANGED <<now, mgr, lock, op, arg, loc, sent, ret, errs, calls, wire, hist, aux>>

\* lines 523-527 and 564-568: the result of the feed command
MoveResult(t) ==
    /\ pc[t] \in {"mr_fl", "mp_fp"}
    /\ Returned(t)
    /\ IF Response(t) # None
         THEN /\ status' = [status EXCEPT !.is_moving = TRUE]
              /\ last_move_time' = now
              /\ Done(t, Some(TRUE))
         ELSE /\ Done(t, Some(FALSE))
              /\ UNCHANGED <<status, last_move_time>>
    /\ Finish(t)
    /\ UNCHANGED <<now, connected, socket, polling, poll_thread,
                   last_move_command_time, jog_active, jog_stop_time,
                   lock, op, arg, loc, sent, errs, calls, wire, hist, aux>>

\* move_to_position, lines 532-535, entered as method o with target a
MoveToPositionEnter(t, o, a) ==
    /\ Begin(t, o, a)
    /\ IF RateLimited
         THEN Done(t, Some(FALSE)) /\ UNCHANGED <<loc, hist, aux>>
         ELSE /\ Goto(t, "mp_stamp")
              /\ loc' = [loc EXCEPT ![t] = [@ EXCEPT !.now = now, !.accepted = TRUE]]
              /\ hist' = [hist EXCEPT !.move_at = now]
              /\ UNCHANGED ret
    /\ UNCHANGED <<now, mgr, lock, io, sent, errs, wire, aux>>

MoveToPositionCall(t, target) == MoveToPositionEnter(t, "move_to_position", target)

\* go_home / go_well taking the rate-limit stamp before looking for the saved
\* position
GoSavedCallStamps(t, which) ==
    LET o == IF which = "home_position" THEN "go_home" ELSE "go_well" IN
    IF status[which] # None
      THEN MoveToPositionEnter(t, o, status[which][1])
      ELSE /\ Begin(t, o, 0)
           /\ Done(t, Some(FALSE))
           /\ last_move_command_time' = IF RateLimited THEN last_move_command_time ELSE now
           /\ UNCHANGED <<now, connected, socket, polling, poll_thread, status,
                          last_move_time, jog_active, jog_stop_time,
                          lock, io, loc, sent, errs, wire, hist, aux>>

\* go_home (which = "home_position") and go_well (which = "well_position"),
\* lines 599-613: fail without a saved position, else move_to_position
GoSavedCall(t, which) ==
    LET o == IF which = "home_position" THEN "go_home" ELSE "go_well" IN
    IF status[which] # None
      THEN MoveToPositionEnter(t, o, status[which][1])
      ELSE /\ Begin(t, o, 0)
           /\ Done(t, Some(FALSE))
           /\ UNCHANGED <<now, mgr, lock, io, loc, sent, errs, wire, hist, aux>>

\* move_to_position, lines 536-544: stop a running motion first
MoveToPositionStamp(t) ==
    /\ pc[t] = "mp_stamp"
    /\ StampMove(t)
    /\ IF status.is_moving
         THEN Issue(t, <<"ST">>) /\ Goto(t, "mp_st")
         ELSE Issue(t, <<"EP">>) /\ Goto(t, "mp_ep")
    /\ UNCHANGED <<now, connected, socket, polling, poll_thread, status,
                   last_move_time, jog_active, jog_stop_time,
                   lock, op, arg, loc, sent, ret, errs, calls, wire, hist, aux>>

\* move_to_position, lines 542-544
MoveToPositionStopped(t) ==
    /\ pc[t] = "mp_st"
    /\ Returned(t)
    /\ Issue(t, <<"EP">>)
    /\ Goto(t, "mp_ep")
    /\ UNCHANGED <<now, mgr, lock, op, arg, loc, sent, ret, errs, calls, wire, hist, aux>>

\* the comparison made in motor steps in place of encoder counts
AtTargetInSteps(current, target) ==
    current # None /\ EncoderToMotor(current[1]) = target

\* line 547: the encoder read by the call is the target
AtTarget(current, target) == current # None /\ current[1] = target

\* move_to_position, lines 544-552 and line 233
MoveToPositionCompare(t) ==
    /\ pc[t] = "mp_ep"
    /\ Returned(t)
    /\ LET current == ParsePosition(Response(t)) IN
         /\ loc' = [loc EXCEPT ![t] = [@ EXCEPT !.current = current]]
         /\ IF AtTarget(current, arg[t])
              THEN Done(t, Some(TRUE)) /\ Finish(t)
              ELSE Issue(t, <<"EP">>) /\ Goto(t, "sy_ep") /\ UNCHANGED ret
    /\ UNCHANGED <<now, mgr, lock, op, arg, sent, errs, calls, wire, hist, aux>>

\* what follows _sync_positions: connect returns True (line 179),
\* move_to_position sets the velocity (line 558)
AfterSync(t) ==
    IF op[t] = "connect"
      THEN Done(t, Some(TRUE)) /\ Finish(t)
      ELSE Issue(t, <<"VE", status.move_velocity>>) /\ Goto(t, "mp_ve") /\ UNCHANGED ret

\* _sync_positions, lines 233-236: SP only when the encoder read parsed
SyncPositions(t) ==
    /\ pc[t] = "sy_ep"
    /\ Returned(t)
    /\ LET ep == ParsePosition(Response(t)) IN
         IF ep # None
           THEN Issue(t, <<"SP", EncoderToMotor(ep[1])>>) /\ Goto(t, "sy_sp") /\ UNCHANGED ret
           ELSE AfterSync(t)
    /\ UNCHANGED <<now, mgr, lock, op, arg, loc, sent, errs, calls, wire, hist, aux>>

\* _sync_positions returns after its SP command
SyncDone(t) ==
    /\ pc[t] = "sy_sp"
    /\ Returned(t)
    /\ AfterSync(t)
    /\ UNCHANGED <<now, mgr, lock, op, arg, loc, sent, errs, calls, wire, hist, aux>>

\* move_to_position, lines 555-561
MoveToPositionFeed(t) ==
    /\ pc[t] = "mp_ve"
    /\ Returned(t)
    /\ Issue(t, <<"FP", EncoderToMotor(arg[t])>>)
    /\ Goto(t, "mp_fp")
    /\ UNCHANGED <<now, mgr, lock, op, arg, loc, sent, ret, errs, calls, wire, hist, aux>>

\* save_home / save_well, lines 583 and 592
SaveCall(t, which) ==
    /\ Begin(t, IF which = "home_position" THEN "save_home" ELSE "save_well", 0)
    /\ Issue(t, <<"EP">>)
    /\ Goto(t, "sv_ep")
    /\ UNCHANGED <<now, mgr, lock, loc, sent, ret, errs, wire, hist, aux>>

\* save_home / save_well, lines 584-588 and 593-597
SaveResult(t) ==
    /\ pc[t] = "sv_ep"
    /\ Returned(t)
    /\ LET pos == ParsePosition(Response(t))
           which == IF op[t] = "save_home" THEN "home_position" ELSE "well_position" IN
         IF pos # None
           THEN /\ status' = [status EXCEPT ![which] = pos]
                /\ Done(t, Some(TRUE))
           ELSE /\ Done(t, Some(FALSE))
                /\ UNCHANGED status
    /\ Finish(t)
    /\ UNCHANGED <<now, connected, socket, polling, poll_thread, last_move_time,
                   last_move_command_time, jog_active, jog_stop_time,
                   lock, op, arg, loc, sent, errs, calls, wire, hist, aux>>

\* set_jog_velocity (which = "jog_velocity", lines 497-500) and
\* set_move_velocity (which = "move_velocity", lines 572-575)
SetVelocityCall(t, which, rps) ==
    /\ Begin(t, IF which = "jog_velocity" THEN "set_jog_velocity"
                                          ELSE "set_move_velocity", rps)
    /\ IF MinVelocity <= rps /\ rps <= MaxVelocity
         THEN status' = [status EXCEPT ![which] = rps] /\ Done(t, Some(TRUE))
         ELSE UNCHANGED status /\ Done(t, Some(FALSE))
    /\ UNCHANGED <<now, connected, socket, polling, poll_thread, last_move_time,
                   last_move_command_time, jog_active, jog_stop_time,
                   lock, io, loc, sent, errs, wire, hist, aux>>

\* ------------------------------------------------ connection and polling

\* connect, lines 164-166: clean up a previous connection first
ConnectCall(t) ==
    /\ Begin(t, "connect", 0)
    /\ IF connected \/ socket THEN Goto(t, "sp_flag") ELSE Goto(t, "cn_open")
    /\ UNCHANGED <<now, mgr, lock, io, loc, sent, ret, errs, wire, hist, aux>>

\* disconnect, line 189
DisconnectCall(t) ==
    /\ Begin(t, "disconnect", 0)
    /\ Goto(t, "sp_flag")
    /\ UNCHANGED <<now, mgr, lock, io, loc, sent, ret, errs, wire, hist, aux>>

\* start_polling, lines 631-633: stop a previous poller first
StartPollingCall(t) ==
    /\ Begin(t, "start_polling", 0)
    /\ IF polling \/ poll_thread # None THEN Goto(t, "sp_flag") ELSE Goto(t, "pl_start")
    /\ UNCHANGED <<now, mgr, lock, io, loc, sent, ret, errs, wire, hist, aux>>

\* what follows stop_polling: start_polling starts the thread (line 635),
\* disconnect closes the socket (line 191)
AfterStopPolling(t) ==
    IF op[t] = "start_polling" THEN Goto(t, "pl_start") ELSE Goto(t, "dc_close")

\* stop_polling, lines 643-644
StopPollingFlag(t) ==
    /\ pc[t] = "sp_flag"
    /\ polling' = FALSE
    /\ hist' = [hist EXCEPT !.told = {p \in Pollers : pc[p] # "off"}]
    /\ IF poll_thread # None THEN Goto(t, "sp_join") ELSE AfterStopPolling(t)
    /\ UNCHANGED <<now, connected, socket, poll_thread, status, last_move_time,
                   last_move_command_time, jog_active, jog_stop_time,
                   lock, op, arg, io, loc, sent, ret, errs, calls, wire, aux>>

\* stop_polling, lines 645-648: join returns, the thread having exited
StopPollingJoin(t) ==
    /\ pc[t] = "sp_join"
    /\ poll_thread # None => pc[poll_thread[1]] = "off"
    /\ poll_thread' = None
    /\ AfterStopPolling(t)
    /\ UNCHANGED <<now, connected, socket, polling, status, last_move_time,
                   last_move_command_time, jog_active, jog_stop_time,
                   lock, op, arg, io, loc, sent, ret, errs, calls, wire, hist, aux>>

\* stop_polling, lines 645-648: join gives up after its 2 s timeout, the
\* thread still inside a cycle, whose three exchanges are bounded by 1 s each
\* (line 647 prints the warning)
StopPollingJoinTimeout(t) ==
    /\ pc[t] = "sp_join"
    /\ poll_thread # None
    /\ pc[poll_thread[1]] \in {"pl_pos", "pl_sc", "pl_al"}
    /\ poll_thread' = None
    /\ AfterStopPolling(t)
    /\ UNCHANGED <<now, connected, socket, polling, status, last_move_time,
                   last_move_command_time, jog_active, jog_stop_time,
                   lock, op, arg, io, loc, sent, ret, errs, calls, wire, hist, aux>>

\* disconnect, lines 191-204: the fields it resets
ResetStatus ==
    [status EXCEPT !.connected = FALSE, !.is_moving = FALSE,
                   !.motor_enabled = FALSE, !.alarm_code = "0000",
                   !.status_code = "0000", !.encoder_position = 0]

\* disconnect, lines 191-205
DisconnectClose(t) ==
    /\ pc[t] = "dc_close"
    /\ socket' = FALSE
    /\ connected' = FALSE
    /\ status' = ResetStatus
    /\ IF op[t] = "connect"
         THEN Goto(t, "cn_open") /\ UNCHANGED ret
         ELSE Done(t, None)
    /\ UNCHANGED <<now, polling, poll_thread, last_move_time,
                   last_move_command_time, jog_active, jog_stop_time,
                   lock, op, arg, io, loc, sent, errs, calls, wire, hist, aux>>

\* connect, lines 169-177 and 213: the socket connects
ConnectOpen(t) ==
    /\ pc[t] = "cn_open"
    /\ socket' = TRUE
    /\ connected' = TRUE
    /\ status' = [status EXCEPT !.connected = TRUE]
    /\ io' = [io EXCEPT ![t] = [st |-> "lock", cmd |-> <<"AC", DefaultAcceleration>>,
                                resp |-> None, exc |-> "none"]]
    /\ Goto(t, "cn_ac")
    /\ UNCHANGED <<now, polling, poll_thread, last_move_time,
                   last_move_command_time, jog_active, jog_stop_time,
                   lock, op, arg, loc, sent, ret, errs, calls, wire, hist, aux>>

\* connect, lines 169-171 raising and lines 181-185
ConnectRefused(t) ==
    /\ pc[t] = "cn_open"
    /\ socket' = TRUE
    /\ connected' = FALSE
    /\ status' = [status EXCEPT !.connected = FALSE]
    /\ errs' = [errs EXCEPT ![t] = Bump(@)]
    /\ Done(t, Some(FALSE))
    /\ UNCHANGED <<now, polling, poll_thread, last_move_time,
                   last_move_command_time, jog_active, jog_stop_time,
                   lock, op, arg, io, loc, sent, calls, wire, hist, aux>>

\* _init_drive, line 214
InitDeceleration(t) ==
    /\ pc[t] = "cn_ac"
    /\ Returned(t)
    /\ Issue(t, <<"DE", DefaultDeceleration>>)
    /\ Goto(t, "cn_de")
    /\ UNCHANGED <<now, mgr, lock, op, arg, loc, sent, ret, errs, calls, wire, hist, aux>>

\* _init_drive, line 215
InitEnable(t) ==
    /\ pc[t] = "cn_de"
    /\ Returned(t)
    /\ Issue(t, <<"ME">>)
    /\ Goto(t, "cn_me")
    /\ UNCHANGED <<now, mgr, lock, op, arg, loc, sent, ret, errs, calls, wire, hist, aux>>

\* _init_drive, lines 216-220 and line 233
InitSync(t) ==
    /\ pc[t] = "cn_me"
    /\ Returned(t)
    /\ status' = [status EXCEPT !.motor_enabled = TRUE]
    /\ Issue(t, <<"EP">>)
    /\ Goto(t, "sy_ep")
    /\ UNCHANGED <<now, connected, socket, polling, poll_thread, last_move_time,
                   last_move_command_time, jog_active, jog_stop_time,
                   lock, op, arg, loc, sent, ret, errs, calls, wire, hist, aux>>

\* start_polling, lines 635-639: a new thread runs _poll_loop (the first
\* thread not running one)
StartPollingThread(t) ==
    /\ pc[t] = "pl_start"
    /\ \E p \in Pollers :
          /\ pc[p] = "off"
          /\ p = "p2" => pc["p1"] # "off"
          /\ polling' = TRUE
          /\ poll_thread' = Some(p)
          /\ pc' = [pc EXCEPT ![t] = "done", ![p] = "pl_test"]
          /\ loc' = [loc EXCEPT ![p] = PollLoc]
          /\ errs' = [errs EXCEPT ![p] = 0]
    /\ UNCHANGED <<now, connected, socket, status, last_move_time,
                   last_move_command_time, jog_active, jog_stop_time,
                   lock, op, arg, io, sent, ret, calls, wire, hist, aux>>

\* the motion window taken inclusive of its end
InMotionModeInclusive == status.is_moving \/ now - last_move_time <= MotionWindow

\* _poll_loop, lines 660-661
InMotionMode == status.is_moving \/ now - last_move_time < MotionWindow

\* _poll_loop, lines 706-715: the cycle of thread p ends with the status
\* callback and its sleep; alarm tells whether the cycle sent AL
EndCycle(p, l, alarm) ==
    [l EXCEPT !.slept = IF l.in_motion_mode THEN FastInterval ELSE PollInterval,
              !.published = @ + 1,
              !.motion_run = IF alarm THEN 0 ELSE @,
              !.since_alarm = IF alarm THEN 0
                              ELSE IF @ < FullPollEvery THEN @ + 1 ELSE @]

\* _poll_loop, lines 657-670: the loop test, then the position read
PollLoopTest(p) ==
    /\ pc[p] = "pl_test"
    /\ IF polling /\ connected
         THEN /\ loc' = [loc EXCEPT ![p] =
                          [@ EXCEPT !.in_motion_mode = InMotionMode,
                                    !.slept = 0,
                                    !.published = 0,
                                    !.motion_run = IF ~InMotionMode THEN 0
                                                   ELSE IF @ > FullPollEvery THEN @
                                                   ELSE @ + 1]]
              /\ Issue(p, IF InMotionMode THEN <<"IE">> ELSE <<"EP">>)
              /\ Goto(p, "pl_pos")
         ELSE /\ Goto(p, "off")
              /\ loc' = [loc EXCEPT ![p] = PollLoc]
              /\ UNCHANGED io
    /\ hist' = [hist EXCEPT !.told = IF polling /\ connected THEN @ ELSE @ \ {p}]
    /\ errs' = [errs EXCEPT ![p] = 0]
    /\ UNCHANGED <<now, mgr, lock, op, arg, sent, ret, calls, wire, aux>>

\* the full refresh taken once the counter has passed its limit, not reached it
PollPositionLate(p) ==
    /\ pc[p] = "pl_pos"
    /\ Returned(p)
    /\ LET pos == ParsePosition(Response(p))
           n == loc[p].full_poll_counter + 1
           full == n > FullPollEvery \/ ~loc[p].in_motion_mode IN
         /\ status' = IF pos # None THEN [status EXCEPT !.encoder_position = pos[1]]
                                    ELSE status
         /\ IF full
              THEN /\ loc' = [loc EXCEPT ![p] = [@ EXCEPT !.full_poll_counter = 0]]
                   /\ Issue(p, <<"SC">>)
                   /\ Goto(p, "pl_sc")
              ELSE /\ loc' = [loc EXCEPT ![p] =
                                EndCycle(p, [@ EXCEPT !.full_poll_counter = n], FALSE)]
                   /\ Finish(p)
                   /\ Goto(p, "pl_test")
    /\ UNCHANGED <<now, connected, socket, polling, poll_thread, last_move_time,
                   last_move_command_time, jog_active, jog_stop_time,
                   lock, op, arg, sent, ret, errs, calls, wire, hist, aux>>

\* _poll_loop, lines 672-682 (and 706-715 when the full refresh is skipped)
PollPosition(p) ==
    /\ pc[p] = "pl_pos"
    /\ Returned(p)
    /\ LET pos == ParsePosition(Response(p))
           n == loc[p].full_poll_counter + 1
           full == n >= FullPollEvery \/ ~loc[p].in_motion_mode IN
         /\ status' = IF pos # None THEN [status EXCEPT !.encoder_position = pos[1]]
                                    ELSE status
         /\ IF full
              THEN /\ loc' = [loc EXCEPT ![p] = [@ EXCEPT !.full_poll_counter = 0]]
                   /\ Issue(p, <<"SC">>)
                   /\ Goto(p, "pl_sc")
              ELSE /\ loc' = [loc EXCEPT ![p] =
                                EndCycle(p, [@ EXCEPT !.full_poll_counter = n], FALSE)]
                   /\ Finish(p)
                   /\ Goto(p, "pl_test")
    /\ UNCHANGED <<now, connected, socket, polling, poll_thread, last_move_time,
                   last_move_command_time, jog_active, jog_stop_time,
                   lock, op, arg, sent, ret, errs, calls, wire, hist, aux>>

\* _poll_loop, lines 682-695
PollStatusCode(p) ==
    /\ pc[p] = "pl_sc"
    /\ Returned(p)
    /\ LET sc == ParseCode(Response(p)) IN
         status' = IF sc # None
                     THEN [status EXCEPT !.status_code = sc[1],
                                         !.motor_enabled = StatusEnabled(sc[1]),
                                         !.is_moving = StatusMoving(sc[1])]
                     ELSE status
    /\ Issue(p, <<"AL">>)
    /\ Goto(p, "pl_al")
    /\ UNCHANGED <<now, connected, socket, polling, poll_thread, last_move_time,
                   last_move_command_time, jog_active, jog_stop_time,
                   lock, op, arg, loc, sent, ret, errs, calls, wire, hist, aux>>

\* _poll_loop, lines 697-701: alarm code al, just read, is a new fault
NewFault(p, al) == al # "0000" /\ al # loc[p].last_alarm

\* the drive reported alarm code al; notified tells whether the error callback
\* was invoked for it: book-keeping of the notifications made while the drive
\* keeps reporting one code
Reported(al, notified) ==
    [hist EXCEPT !.fault_notes = IF al = hist.fault_code
                                   THEN IF notified THEN Bump(@) ELSE @
                                   ELSE IF notified THEN 1 ELSE 0,
                 !.fault_code = al]

\* the alarm read that does not remember the code it read
PollAlarmForgets(p) ==
    /\ pc[p] = "pl_al"
    /\ Returned(p)
    /\ LET al == ParseCode(Response(p)) IN
         IF al # None
           THEN /\ status' = [status EXCEPT !.alarm_code = al[1]]
                /\ errs' = IF NewFault(p, al[1])
                             THEN [errs EXCEPT ![p] = Bump(@)] ELSE errs
                /\ hist' = Reported(al[1], NewFault(p, al[1]))
                /\ loc' = [loc EXCEPT ![p] = EndCycle(p, @, TRUE)]
           ELSE /\ loc' = [loc EXCEPT ![p] = EndCycle(p, @, TRUE)]
                /\ UNCHANGED <<status, errs, hist>>
    /\ Finish(p)
    /\ Goto(p, "pl_test")
    /\ UNCHANGED <<now, connected, socket, polling, poll_thread, last_move_time,
                   last_move_command_time, jog_active, jog_stop_time,
                   lock, op, arg, sent, ret, calls, wire, aux>>

\* the cycle that publishes the status only when its alarm read was answered
PollAlarmQuiet(p) ==
    /\ pc[p] = "pl_al"
    /\ Returned(p)
    /\ LET al == ParseCode(Response(p)) IN
         IF al # None
           THEN /\ status' = [status EXCEPT !.alarm_code = al[1]]
                /\ errs' = IF NewFault(p, al[1])
                             THEN [errs EXCEPT ![p] = Bump(@)] ELSE errs
                /\ hist' = Reported(al[1], NewFault(p, al[1]))
                /\ loc' = [loc EXCEPT ![p] =
                             EndCycle(p, [@ EXCEPT !.last_alarm = al[1]], TRUE)]
           ELSE /\ loc' = [loc EXCEPT ![p] =
                             [EndCycle(p, @, TRUE) EXCEPT !.published = loc[p].published]]
                /\ UNCHANGED <<status, errs, hist>>
    /\ Finish(p)
    /\ Goto(p, "pl_test")
    /\ UNCHANGED <<now, connected, socket, polling, poll_thread, last_move_time,
                   last_move_command_time, jog_active, jog_stop_time,
                   lock, op, arg, sent, ret, calls, wire, aux>>

\* _poll_loop, lines 695-715
PollAlarm(p) ==
    /\ pc[p] = "pl_al"
    /\ Returned(p)
    /\ LET al == ParseCode(Response(p)) IN
         IF al # None
           THEN /\ status' = [status EXCEPT !.alarm_code = al[1]]
                /\ errs' = IF NewFault(p, al[1])
                             THEN [errs EXCEPT ![p] = Bump(@)] ELSE errs
                /\ hist' = Reported(al[1], NewFault(p, al[1]))
                /\ loc' = [loc EXCEPT ![p] =
                             EndCycle(p, [@ EXCEPT !.last_alarm = al[1]], TRUE)]
           ELSE /\ loc' = [loc EXCEPT ![p] = EndCycle(p, @, TRUE)]
                /\ UNCHANGED <<status, errs, hist>>
    /\ Finish(p)
    /\ Goto(p, "pl_test")
    /\ UNCHANGED <<now, connected, socket, polling, poll_thread, last_move_time,
                   last_move_command_time, jog_active, jog_stop_time,
                   lock, op, arg, sent, ret, calls, wire, aux>>

\* ------------------------------------------------------------ the system

MotionStep(t) ==
    \/ \E d \in Directions : JogStartCall(t, d)
    \/ JogStartAccept(t)
    \/ JogStartSpeed(t)
    \/ JogStartCommence(t)
    \/ JogStartResult(t)
    \/ JogStopCall(t)
    \/ JogStopResult(t)
    \/ \E kind \in {"ST", "SK"} : StopCall(t, kind)
    \/ StopResult(t)
    \/ \E steps \in StepArgs : MoveRelativeCall(t, steps)
    \/ MoveRelativeStamp(t)
    \/ MoveRelativeDistance(t)
    \/ MoveRelativeFeed(t)
    \/ MoveResult(t)
    \/ \E target \in Positions : MoveToPositionCall(t, target)
    \/ \E which \in {"home_position", "well_position"} : GoSavedCall(t, which)
    \/ MoveToPositionStamp(t)
    \/ MoveToPositionStopped(t)
    \/ MoveToPositionCompare(t)
    \/ SyncPositions(t)
    \/ SyncDone(t)
    \/ MoveToPositionFeed(t)
    \/ \E which \in {"home_position", "well_position"} : SaveCall(t, which)
    \/ SaveResult(t)
    \/ Return(t)

ConnectionStep(t) ==
    \/ ConnectCall(t)
    \/ DisconnectCall(t)
    \/ StartPollingCall(t)
    \/ StopPollingFlag(t)
    \/ StopPollingJoin(t)
    \/ DisconnectClose(t)
    \/ ConnectOpen(t)
    \/ ConnectRefused(t)
    \/ InitDeceleration(t)
    \/ InitEnable(t)
    \/ InitSync(t)
    \/ StartPollingThread(t)

PollerStep(p) ==
    \/ PollLoopTest(p)
    \/ PollPosition(p)
    \/ PollStatusCode(p)
    \/ PollAlarm(p)

SendStep(t) ==
    \/ SendWrite(t)
    \/ SendWriteRaises(t)
    \/ SendRead(t)
    \/ SendReadRaises(t)

\* One caller driving the motion state machine
Next ==
    \/ MotionStep("c1")
    \/ SendStep("c1")
    \/ Tick

Spec == Init /\ [][Next]_vars

\* Two callers on a connected manager, no poller running
ConnectedDuo ==
    /\ now = StartTime
    /\ connected = TRUE
    /\ socket = TRUE
    /\ lock = NoThread
    /\ polling = FALSE
    /\ poll_thread = None
    /\ status = [STAC5Status EXCEPT !.connected = TRUE, !.motor_enabled = TRUE]
    /\ last_move_time = 0
    /\ last_move_command_time = 0
    /\ jog_active = FALSE
    /\ jog_stop_time = 0
    /\ pc = [t \in Threads |-> IF t \in Callers THEN "idle" ELSE "off"]
    /\ op = [t \in Callers |-> "none"]
    /\ arg = [t \in Callers |-> 0]
    /\ io = [t \in Threads |-> IdleIO]
    /\ loc = [t \in Threads |-> IF t \in Callers THEN NoLoc ELSE PollLoc]
    /\ sent = [t \in Callers |-> <<>>]
    /\ ret = [t \in Callers |-> None]
    /\ errs = [t \in Threads |-> 0]
    /\ calls = MaxConcCalls
    /\ wire = [cj |-> FALSE, sj |-> 0, di |-> 0]
    /\ hist = [jog_stop_at |-> 0, move_at |-> 0,
               fault_code |-> "0000", fault_notes |-> 0, told |-> {}]
    /\ RelayIdle
    /\ DecoderIdle

\* The state after connect() and start_polling(): the poll thread is about to
\* test its loop condition (line 657); one caller
Polling ==
    /\ now = StartTime
    /\ connected = TRUE
    /\ socket = TRUE
    /\ lock = NoThread
    /\ polling = TRUE
    /\ poll_thread = Some("p1")
    /\ status = [STAC5Status EXCEPT !.connected = TRUE, !.motor_enabled = TRUE]
    /\ last_move_time = 0
    /\ last_move_command_time = 0
    /\ jog_active = FALSE
    /\ jog_stop_time = 0
    /\ pc = [t \in Threads |-> IF t = "c1" THEN "idle"
                               ELSE IF t \in Callers THEN "absent"
                               ELSE IF t = "p1" THEN "pl_test" ELSE "off"]
    /\ op = [t \in Callers |-> "none"]
    /\ arg = [t \in Callers |-> 0]
    /\ io = [t \in Threads |-> IdleIO]
    /\ loc = [t \in Threads |-> IF t \in Callers THEN NoLoc ELSE PollLoc]
    /\ sent = [t \in Callers |-> <<>>]
    /\ ret = [t \in Callers |-> None]
    /\ errs = [t \in Threads |-> 0]
    /\ calls = MaxPolledCalls
    /\ wire = [cj |-> FALSE, sj |-> 0, di |-> 0]
    /\ hist = [jog_stop_at |-> 0, move_at |-> 0,
               fault_code |-> "0000", fault_notes |-> 0, told |-> {}]
    /\ RelayIdle
    /\ DecoderIdle

\* the jog and relative-move methods, as called from any thread
JogMoveStep(t) ==
    \/ \E d \in Directions : JogStartCall(t, d)
    \/ JogStartAccept(t)
    \/ JogStartSpeed(t)
    \/ JogStartCommence(t)
    \/ JogStartResult(t)
    \/ JogStopCall(t)
    \/ JogStopResult(t)
    \/ \E steps \in StepArgs : MoveRelativeCall(t, steps)
    \/ MoveRelativeStamp(t)
    \/ MoveRelativeDistance(t)
    \/ MoveRelativeFeed(t)
    \/ MoveResult(t)
    \/ Return(t)

\* Concurrent callers and the poll thread
NextConc ==
    \/ \E t \in Callers : JogMoveStep(t)
    \/ \E p \in Pollers : PollerStep(p)
    \/ \E t \in Threads : SendStep(t)
    \/ Tick

SpecConc == (ConnectedDuo \/ Polling) /\ [][NextConc]_vars

\* The connection life cycle: one caller connecting, starting the poller and
\* disconnecting, with the poll thread running
NextLife ==
    \/ ConnectionStep("c1")
    \/ \E which \in {"home_position", "well_position"} : SaveCall("c1", which)
    \/ SaveResult("c1")
    \/ SyncPositions("c1")
    \/ SyncDone("c1")
    \/ \E which \in {"jog_velocity", "move_velocity"}, rps \in VelocityArgs :
          SetVelocityCall("c1", which, rps)
    \/ Return("c1")
    \/ \E p \in Pollers : PollerStep(p)
    \/ \E t \in Threads : SendStep(t)
    \/ Tick

SpecLife == Fresh /\ [][NextLife]_vars

\* the time of a move issued one tick short of a motion window ago
RecentMove == StartTime - MotionWindow + TickStep

\* The state after connect(), a move_relative answered at RecentMove and
\* finished since, and start_polling(): the poll thread is about to test its
\* loop condition (line 657); one caller
PollingAfterMove ==
    /\ now = StartTime
    /\ connected = TRUE
    /\ socket = TRUE
    /\ lock = NoThread
    /\ polling = TRUE
    /\ poll_thread = Some("p1")
    /\ status = [STAC5Status EXCEPT !.connected = TRUE, !.motor_enabled = TRUE]
    /\ last_move_time = RecentMove
    /\ last_move_command_time = RecentMove
    /\ jog_active = FALSE
    /\ jog_stop_time = 0
    /\ pc = [t \in Threads |-> IF t = "c1" THEN "idle"
                               ELSE IF t \in Callers THEN "absent"
                               ELSE IF t = "p1" THEN "pl_test" ELSE "off"]
    /\ op = [t \in Callers |-> "none"]
    /\ arg = [t \in Callers |-> 0]
    /\ io = [t \in Threads |-> IdleIO]
    /\ loc = [t \in Threads |-> IF t \in Callers THEN NoLoc ELSE PollLoc]
    /\ sent = [t \in Callers |-> <<>>]
    /\ ret = [t \in Callers |-> None]
    /\ errs = [t \in Threads |-> 0]
    /\ calls = MaxPolledCalls
    /\ wire = [cj |-> FALSE, sj |-> 0, di |-> 0]
    /\ hist = [jog_stop_at |-> 0, move_at |-> RecentMove,
               fault_code |-> "0000", fault_notes |-> 0, told |-> {}]
    /\ RelayIdle
    /\ DecoderIdle

\* The poll thread, with one caller making relative moves
\* move_relative, as called from a thread
RelativeMoveStep(t) ==
    \/ \E steps \in StepArgs : MoveRelativeCall(t, steps)
    \/ MoveRelativeStamp(t)
    \/ MoveRelativeDistance(t)
    \/ MoveRelativeFeed(t)
    \/ MoveResult(t)
    \/ Return(t)

NextPoll ==
    \/ \E p \in Pollers : PollerStep(p)
    \/ RelativeMoveStep("c1")
    \/ \E t \in Threads : SendStep(t)
    \/ Tick

SpecPoll == PollingAfterMove /\ [][NextPoll]_vars

\* the encoder positions of the translation check
EncoderRange == (-MaxEncoder)..MaxEncoder

\* move_to_position(P) on a connected manager, inside _sync_positions: the
\* first encoder read (line 544) did not parse, the second (line 233) has just
\* returned EP=Q
InTranslation ==
    /\ now = StartTime
    /\ connected = TRUE
    /\ socket = TRUE
    /\ lock = NoThread
    /\ polling = FALSE
    /\ poll_thread = None
    /\ status = [STAC5Status EXCEPT !.connected = TRUE, !.motor_enabled = TRUE]
    /\ last_move_time = 0
    /\ last_move_command_time = StartTime
    /\ jog_active = FALSE
    /\ jog_stop_time = 0
    /\ pc = [t \in Threads |-> IF t = "c1" THEN "sy_ep"
                               ELSE IF t \in Callers THEN "absent" ELSE "off"]
    /\ op = [t \in Callers |-> IF t = "c1" THEN "move_to_position" ELSE "none"]
    /\ \E P \in EncoderRange : arg = [t \in Callers |-> IF t = "c1" THEN P ELSE 0]
    /\ \E Q \in EncoderRange :
          io = [t \in Threads |->
                  IF t = "c1" THEN [st |-> "done", cmd |-> <<"EP">>,
                                    resp |-> <<"EP", Q>>, exc |-> "none"]
                              ELSE IdleIO]
    /\ loc = [t \in Threads |->
                IF t = "c1" THEN [NoLoc EXCEPT !.now = StartTime, !.accepted = TRUE]
                ELSE IF t \in Callers THEN NoLoc ELSE PollLoc]
    /\ sent = [t \in Callers |-> IF t = "c1" THEN <<<<"EP">>, <<"EP">>>> ELSE <<>>]
    /\ ret = [t \in Callers |-> None]
    /\ errs = [t \in Threads |-> 0]
    /\ calls = 0
    /\ wire = [cj |-> FALSE, sj |-> 0, di |-> 0]
    /\ hist = [jog_stop_at |-> 0, move_at |-> StartTime,
               fault_code |-> "0000", fault_notes |-> 0, told |-> {}]
    /\ RelayIdle
    /\ DecoderIdle

\* the rest of that move_to_position call
NextTranslate ==
    \/ SyncPositions("c1")
    \/ SyncDone("c1")
    \/ MoveToPositionFeed("c1")
    \/ MoveResult("c1")
    \/ Return("c1")
    \/ SendStep("c1")

SpecTranslate == InTranslation /\ [][NextTranslate]_vars

\* _decode_alarm is about to be called with some alarm code
InDecoder ==
    /\ FreshDrive
    /\ RelayIdle
    /\ alarm_in \in AlarmCodes
    /\ alarm_out = None

\* the call of _decode_alarm
DecodeAlarmCall ==
    /\ alarm_out = None
    /\ alarm_out' = Some(DecodeAlarm(alarm_in))
    /\ UNCHANGED <<drive, relay, alarm_in>>

NextDecode == DecodeAlarmCall

\* The alarm decoder, over every alarm code
SpecDecode == InDecoder /\ [][NextDecode]_vars

\* start_polling, with both outcomes of the join in stop_polling
RestartStep(t) ==
    \/ StartPollingCall(t)
    \/ StopPollingFlag(t)
    \/ StopPollingJoin(t)
    \/ StopPollingJoinTimeout(t)
    \/ StartPollingThread(t)
    \/ Return(t)

NextRestart ==
    \/ RestartStep("c1")
    \/ \E p \in Pollers : PollerStep(p)
    \/ \E t \in Threads : SendStep(t)

\* A caller restarting the poller of a connected, polling manager
SpecRestart == Polling /\ [][NextRestart]_vars

\* ------------------------------------------------- command_protocol.py
\* A received line is a sequence of tokens, one space between neighbours.
\* A token is a tuple of strings: a carriage return, a line feed, a word
\* that belongs to no status, or a KEY:VALUE word of the status schema:
\* <<key, numeral>>, <<key, "Y@", numeral>>, <<key, name>>, or, where the
\* pattern takes [\d.]+, the key followed by the characters of the value.
CR == <<"\r">>
LF == <<"\n">>
Whitespace == {CR, LF}
Noise == {<<"x">>, <<"y">>}

\* WinchStatus's defaults for the speeds (config.py lines 47 and 50), in
\* hundredths of a revolution per second
DefaultJogSpeedRps == 1000
DefaultMoveSpeedRps == 750

\* the dataclass WinchStatus with its defaults
WinchStatus ==
    [position |-> 0, mode |-> "IDLE", speed_rps |-> 0,
     home_saved |-> FALSE, home_position |-> None,
     well_saved |-> FALSE, well_position |-> None,
     estop_active |-> FALSE,
     max_jog_rps |-> DefaultJogSpeedRps, max_move_rps |-> DefaultMoveSpeedRps,
     raw_response |-> <<>>]

\* the members of MotionMode a status line can name
MotionMode == {"IDLE", "JOG", "MOVE", "UNKNOWN"}

\* the words of the model's status lines, in the order of STATUS_PATTERN's
\* eight tokens; the second speed is one float() rejects
SchemaWords ==
    <<{<<"POS", "7">>, <<"POS", "-5">>},
      {<<"MODE", "IDLE">>, <<"MODE", "FAST">>},
      {<<"SPD", "1", ".", "2", "5">>, <<"SPD", "1", ".", "2", ".", "3">>},
      {<<"HOME", "N">>, <<"HOME", "Y@", "7">>},
      {<<"WELL", "N">>, <<"WELL", "Y@", "-5">>},
      {<<"ESTOP", "0">>, <<"ESTOP", "1">>},
      {<<"VJOG", "2">>},
      {<<"VMOVE", "1", ".", "5">>}>>

\* STATUS_PATTERN: the keys it requires, in its order
RequiredKeys == <<"POS", "MODE", "SPD", "HOME", "WELL", "ESTOP">>

\* int() of a numeral the pattern's -?\d+ has matched
IntOf(n) == CASE n = "0" -> 0 [] n = "7" -> 7 [] n = "-5" -> -5

\* the value of a digit
DigitOf(c) ==
    LET Digits == <<"0", "1", "2", "3", "4", "5", "6", "7", "8", "9">>
    IN  (CHOOSE i \in 1..10 : Digits[i] = c) - 1

RECURSIVE NumberOf(_)
\* the number a sequence of digits writes
NumberOf(ds) ==
    IF ds = <<>> THEN 0
    ELSE NumberOf(SubSeq(ds, 1, Len(ds) - 1)) * 10 + DigitOf(ds[Len(ds)])

\* float() accepts characters from [\d.]+ when they hold at most one point
\* and at least one digit; otherwise it raises ValueError
IsFloat(cs) ==
    /\ Cardinality({i \in 1..Len(cs) : cs[i] = "."}) <= 1
    /\ \E i \in 1..Len(cs) : cs[i] # "."

\* float() of such characters, in hundredths (values of up to two decimals)
FloatOf(cs) ==
    LET dot == IF \E i \in 1..Len(cs) : cs[i] = "."
               THEN CHOOSE i \in 1..Len(cs) : cs[i] = "."
               ELSE Len(cs) + 1
        frac == SubSeq(cs, dot + 1, Len(cs))
    IN  NumberOf(SubSeq(cs, 1, dot - 1)) * 100
        + (IF Len(frac) = 0 THEN 0
           ELSE IF Len(frac) = 1 THEN DigitOf(frac[1]) * 10
           ELSE DigitOf(frac[1]) * 10 + DigitOf(frac[2]))

\* str.strip(): whitespace is removed at both ends only
RECURSIVE Strip(_)
Strip(line) ==
    IF line = <<>> THEN line
    ELSE IF Head(line) \in Whitespace THEN Strip(Tail(line))
    ELSE IF line[Len(line)] \in Whitespace
         THEN Strip(SubSeq(line, 1, Len(line) - 1))
    ELSE line

\* the pattern's \s+ takes any run of whitespace between two words
Words(line) == SelectSeq(line, LAMBDA w : w \notin Whitespace)

\* STATUS_PATTERN matches the words from the i-th on
MatchAt(ws, i) ==
    /\ i + 5 <= Len(ws)
    /\ \A k \in 1..6 : ws[i + k - 1][1] = RequiredKeys[k]

\* what parse_status gives: None, a WinchStatus, or the ValueError that
\* float() raised
Returns(kind, st) == [kind |-> kind, status |-> st]

\* ResponseParser.parse_status
ParseStatus(response) ==
    LET ws == Words(Strip(response)) IN
    IF response = <<>> \/ ~ \E i \in 1..Len(ws) : MatchAt(ws, i)
    THEN Returns("none", WinchStatus)
    ELSE
      LET i == CHOOSE j \in 1..Len(ws) :
                   MatchAt(ws, j) /\ \A k \in 1..(j - 1) : ~MatchAt(ws, k)
          has_vjog == i + 6 <= Len(ws) /\ ws[i + 6][1] = "VJOG"
          v == IF has_vjog THEN i + 7 ELSE i + 6
          has_vmove == v <= Len(ws) /\ ws[v][1] = "VMOVE"
          speed_str == Tail(ws[i + 2])
          home == ws[i + 3]
          well == ws[i + 4]
      IN  IF \/ has_vjog /\ ~IsFloat(Tail(ws[i + 6]))
             \/ has_vmove /\ ~IsFloat(Tail(ws[v]))
             \/ ~IsFloat(speed_str)
          THEN Returns("raise", WinchStatus)
          ELSE Returns("status",
                 [position |-> IntOf(ws[i][2]),
                  mode |-> IF ws[i + 1][2] \in MotionMode
                           THEN ws[i + 1][2] ELSE "UNKNOWN",
                  speed_rps |-> FloatOf(speed_str),
                  home_saved |-> home[2] = "Y@",
                  home_position |-> IF Len(home) = 3
                                    THEN Some(IntOf(home[3])) ELSE None,
                  well_saved |-> well[2] = "Y@",
                  well_position |-> IF Len(well) = 3
                                    THEN Some(IntOf(well[3])) ELSE None,
                  estop_active |-> ws[i + 5][2] = "1",
                  max_jog_rps |-> IF has_vjog THEN FloatOf(Tail(ws[i + 6]))
                                  ELSE DefaultJogSpeedRps,
                  max_move_rps |-> IF has_vmove THEN FloatOf(Tail(ws[v]))
                                   ELSE DefaultMoveSpeedRps,
                  raw_response |-> Strip(response)])

\* --------------------------------------------------- serial_manager.py
\* the commands the application sends, and the poll loop's status request
RelayCommands == {"JL", "ST"}
StatusRequest == "?"

\* the property is_connected
IsConnected == sm.state = "connected"

\* a thread identity no running thread uses
Free(t) == rpc[t] \in {"off", "dead"}

\* _process_response: the response callback hears the line; a status it
\* parses to is kept and the status callback hears it; a ValueError of
\* parse_status leaves before either
ProcessResponse(line) ==
    LET result == ParseStatus(line) IN
    /\ cb' = [cb EXCEPT !.response = Append(@, line),
                        !.status = IF result.kind = "status" THEN @ + 1 ELSE @]
    /\ sm' = IF result.kind = "status"
             THEN [sm EXCEPT !.last_status = Some(result.status)]
             ELSE sm

\* _send_command_direct, under the lock: nothing without an open port;
\* otherwise the command is written, or the write raises SerialException,
\* the error callback hears it and _handle_disconnection sets the state
SendCommandDirect(t, c) ==
    \/ /\ sm.serial # "open"
       /\ UNCHANGED <<sm, written, cb>>
    \/ /\ sm.serial = "open"
       /\ written' = Append(written, <<t, c>>)
       /\ UNCHANGED <<sm, cb>>
    \/ /\ sm.serial = "open"
       /\ cb.error < MaxFaults
       /\ sm' = [sm EXCEPT !.state = "error"]
       /\ cb' = [cb EXCEPT !.error = @ + 1, !.connection = Append(@, "error")]
       /\ UNCHANGED written

\* send_command refusing only a disconnected manager
RelaySendCommandUnlessIdle(u, c) ==
    /\ rpc[u] = "idle"
    /\ rloc[u].calls > 0
    /\ IF sm.state # "disconnected"
       THEN /\ sm' = [sm EXCEPT !.command_queue = Append(@, c)]
            /\ rloc' = [rloc EXCEPT ![u].op = "send_command",
                                    ![u].arg = Some(c),
                                    ![u].ret = Some(TRUE),
                                    ![u].calls = @ - 1,
                                    ![u].accepted = Append(@, c)]
       ELSE /\ rloc' = [rloc EXCEPT ![u].op = "send_command",
                                    ![u].arg = Some(c),
                                    ![u].ret = Some(FALSE),
                                    ![u].calls = @ - 1]
            /\ UNCHANGED sm
    /\ UNCHANGED <<drive, decoder, rpc, written, inbound, cb>>

\* send_command
RelaySendCommand(u, c) ==
    /\ rpc[u] = "idle"
    /\ rloc[u].calls > 0
    /\ IF IsConnected
       THEN /\ sm' = [sm EXCEPT !.command_queue = Append(@, c)]
            /\ rloc' = [rloc EXCEPT ![u].op = "send_command",
                                    ![u].arg = Some(c),
                                    ![u].ret = Some(TRUE),
                                    ![u].calls = @ - 1,
                                    ![u].accepted = Append(@, c)]
       ELSE /\ rloc' = [rloc EXCEPT ![u].op = "send_command",
                                    ![u].arg = Some(c),
                                    ![u].ret = Some(FALSE),
                                    ![u].calls = @ - 1]
            /\ UNCHANGED sm
    /\ UNCHANGED <<drive, decoder, rpc, written, inbound, cb>>

\* connect is called: a connected manager disconnects first
RelayConnectCall(u) ==
    /\ rpc[u] = "idle"
    /\ rloc[u].calls > 0
    /\ rpc' = [rpc EXCEPT ![u] = IF IsConnected THEN "dc_stop" ELSE "cn_state"]
    /\ rloc' = [rloc EXCEPT ![u].op = "connect", ![u].arg = None,
                            ![u].ret = None, ![u].calls = @ - 1]
    /\ UNCHANGED <<drive, decoder, sm, written, inbound, cb>>

\* disconnect is called
RelayDisconnectCall(u) ==
    /\ rpc[u] = "idle"
    /\ rloc[u].calls > 0
    /\ rpc' = [rpc EXCEPT ![u] = "dc_stop"]
    /\ rloc' = [rloc EXCEPT ![u].op = "disconnect", ![u].arg = None,
                            ![u].ret = None, ![u].calls = @ - 1]
    /\ UNCHANGED <<drive, decoder, sm, written, inbound, cb>>

\* disconnect: the stop event is set
RelayStop(u) ==
    /\ rpc[u] = "dc_stop"
    /\ sm' = [sm EXCEPT !.stop_event = TRUE]
    /\ rpc' = [rpc EXCEPT ![u] = "dc_join"]
    /\ UNCHANGED <<drive, decoder, rloc, written, inbound, cb>>

\* disconnect: the read thread and the poll thread the manager refers to are
\* joined; each leaves its loop within the second the join allows
RelayJoin(u) ==
    /\ rpc[u] = "dc_join"
    /\ sm.read_thread # None => Free(sm.read_thread[1])
    /\ sm.poll_thread # None => Free(sm.poll_thread[1])
    /\ rpc' = [rpc EXCEPT ![u] = "dc_close"]
    /\ UNCHANGED <<drive, decoder, sm, rloc, written, inbound, cb>>

\* disconnect keeping the last status
RelayCloseKeepsStatus(u) ==
    /\ rpc[u] = "dc_close"
    /\ sm' = [sm EXCEPT !.serial = "none", !.state = "disconnected"]
    /\ cb' = [cb EXCEPT !.connection = Append(@, "disconnected")]
    /\ rpc' = [rpc EXCEPT ![u] = IF rloc[u].op = "connect" THEN "cn_state"
                                 ELSE "idle"]
    /\ UNCHANGED <<drive, decoder, rloc, written, inbound>>

\* disconnect: the port is closed and forgotten, the last status is
\* forgotten, the state is DISCONNECTED; the queue is left as it is
RelayClose(u) ==
    /\ rpc[u] = "dc_close"
    /\ sm' = [sm EXCEPT !.serial = "none", !.last_status = None,
                        !.state = "disconnected"]
    /\ cb' = [cb EXCEPT !.connection = Append(@, "disconnected")]
    /\ rpc' = [rpc EXCEPT ![u] = IF rloc[u].op = "connect" THEN "cn_state"
                                 ELSE "idle"]
    /\ UNCHANGED <<drive, decoder, rloc, written, inbound>>

\* connect: the state is CONNECTING
RelayConnecting(u) ==
    /\ rpc[u] = "cn_state"
    /\ sm' = [sm EXCEPT !.state = "connecting"]
    /\ cb' = [cb EXCEPT !.connection = Append(@, "connecting")]
    /\ rpc' = [rpc EXCEPT ![u] = "cn_open"]
    /\ UNCHANGED <<drive, decoder, rloc, written, inbound>>

\* connect: the port opens, its input is discarded, the stop event is
\* cleared, a read thread and a poll thread are started, the state is
\* CONNECTED and connect returns True
RelayOpen(u) ==
    /\ rpc[u] = "cn_open"
    /\ \E r \in Readers, s \in StatusPollers :
         /\ Free(r)
         /\ r = "r2" => ~Free("r1")
         /\ Free(s)
         /\ s = "s2" => ~Free("s1")
         /\ sm' = [sm EXCEPT !.serial = "open", !.stop_event = FALSE,
                             !.read_thread = Some(r), !.poll_thread = Some(s),
                             !.state = "connected"]
         /\ rpc' = [rpc EXCEPT ![u] = "idle", ![r] = "rd_test", ![s] = "sq_test"]
         /\ rloc' = [rloc EXCEPT ![u].ret = Some(TRUE),
                                 ![r] = NoLocals,
                                 ![s] = [NoLocals EXCEPT !.calls = MaxPolls]]
    /\ cb' = [cb EXCEPT !.connection = Append(@, "connected")]
    /\ inbound' = <<>>
    /\ UNCHANGED <<drive, decoder, written>>

\* connect: serial.Serial raises SerialException; the state is ERROR, the
\* error callback hears it and connect returns False
RelayOpenFails(u) ==
    /\ rpc[u] = "cn_open"
    /\ cb.error < MaxFaults
    /\ sm' = [sm EXCEPT !.state = "error"]
    /\ cb' = [cb EXCEPT !.error = @ + 1, !.connection = Append(@, "error")]
    /\ rpc' = [rpc EXCEPT ![u] = "idle"]
    /\ rloc' = [rloc EXCEPT ![u].ret = Some(FALSE)]
    /\ UNCHANGED <<drive, decoder, written, inbound>>

\* _read_loop: the loop test
ReadLoopTest(r) ==
    /\ rpc[r] = "rd_test"
    /\ rpc' = [rpc EXCEPT ![r] = IF sm.stop_event THEN "off" ELSE "rd_drain"]
    /\ UNCHANGED <<drive, decoder, sm, rloc, written, inbound, cb>>

\* _read_loop: get_nowait takes the oldest command, or finds the queue empty
ReadLoopTake(r) ==
    /\ rpc[r] = "rd_drain"
    /\ IF sm.command_queue = <<>>
       THEN /\ rpc' = [rpc EXCEPT ![r] = "rd_read"]
            /\ UNCHANGED <<sm, rloc>>
       ELSE /\ sm' = [sm EXCEPT !.command_queue = Tail(@)]
            /\ rloc' = [rloc EXCEPT ![r].command = Some(Head(sm.command_queue))]
            /\ rpc' = [rpc EXCEPT ![r] = "rd_send"]
    /\ UNCHANGED <<drive, decoder, written, inbound, cb>>

\* _read_loop: the command taken is sent
ReadLoopSend(r) ==
    /\ rpc[r] = "rd_send"
    /\ SendCommandDirect(r, rloc[r].command[1])
    /\ rpc' = [rpc EXCEPT ![r] = "rd_drain"]
    /\ rloc' = [rloc EXCEPT ![r].command = None]
    /\ UNCHANGED <<drive, decoder, inbound>>

\* the buffer holds a complete line
HasLine(buffer) == \E i \in 1..Len(buffer) : buffer[i] = LF

\* _read_loop: without an open port the loop is left; otherwise the bytes
\* that have arrived, some prefix of those on their way, join the buffer
ReadLoopRead(r) ==
    /\ rpc[r] = "rd_read"
    /\ IF sm.serial # "open"
       THEN /\ rpc' = [rpc EXCEPT ![r] = "off"]
            /\ UNCHANGED <<rloc, inbound>>
       ELSE \E n \in 0..Len(inbound) :
              LET buffer == rloc[r].buffer \o SubSeq(inbound, 1, n) IN
              /\ rloc' = [rloc EXCEPT ![r].buffer = buffer]
              /\ inbound' = SubSeq(inbound, n + 1, Len(inbound))
              /\ rpc' = [rpc EXCEPT ![r] = IF HasLine(buffer) THEN "rd_lines"
                                           ELSE "rd_test"]
    /\ UNCHANGED <<drive, decoder, sm, written, cb>>

\* _read_loop: the read raises SerialException; the error callback hears
\* it, the state is ERROR and the loop is left
ReadLoopReadFails(r) ==
    /\ rpc[r] = "rd_read"
    /\ sm.serial = "open"
    /\ cb.error < MaxFaults
    /\ sm' = [sm EXCEPT !.state = "error"]
    /\ cb' = [cb EXCEPT !.error = @ + 1, !.connection = Append(@, "error")]
    /\ rpc' = [rpc EXCEPT ![r] = "off"]
    /\ UNCHANGED <<drive, decoder, rloc, written, inbound>>

\* _read_loop: the buffer is split at its first "\n"; what precedes it is
\* stripped and, unless empty, processed; a ValueError ends the thread
ReadLoopLines(r) ==
    /\ rpc[r] = "rd_lines"
    /\ LET buffer == rloc[r].buffer
           k == CHOOSE i \in 1..Len(buffer) :
                    buffer[i] = LF /\ \A j \in 1..(i - 1) : buffer[j] # LF
           line == Strip(SubSeq(buffer, 1, k - 1))
           rest == SubSeq(buffer, k + 1, Len(buffer))
           next == IF HasLine(rest) THEN "rd_lines" ELSE "rd_test"
       IN  /\ rloc' = [rloc EXCEPT ![r].buffer = rest]
           /\ IF line = <<>>
              THEN /\ rpc' = [rpc EXCEPT ![r] = next]
                   /\ UNCHANGED <<sm, cb>>
              ELSE /\ ProcessResponse(line)
                   /\ rpc' = [rpc EXCEPT ![r] =
                                IF ParseStatus(line).kind = "raise" THEN "dead"
                                ELSE next]
    /\ UNCHANGED <<drive, decoder, written, inbound>>

\* _poll_loop: the loop test, and whether the manager is connected
StatusPollTest(s) ==
    /\ rpc[s] = "sq_test"
    /\ sm.stop_event \/ ~IsConnected \/ rloc[s].calls > 0
    /\ rpc' = [rpc EXCEPT ![s] = IF sm.stop_event THEN "off"
                                 ELSE IF IsConnected THEN "sq_send"
                                 ELSE "sq_wait"]
    /\ UNCHANGED <<drive, decoder, sm, rloc, written, inbound, cb>>

\* _poll_loop: the status request is sent
StatusPollSend(s) ==
    /\ rpc[s] = "sq_send"
    /\ SendCommandDirect(s, StatusRequest)
    /\ rpc' = [rpc EXCEPT ![s] = "sq_wait"]
    /\ rloc' = [rloc EXCEPT ![s].calls = @ - 1]
    /\ UNCHANGED <<drive, decoder, inbound>>

\* _poll_loop: the wait ends, by the interval or by the stop event
StatusPollWait(s) ==
    /\ rpc[s] = "sq_wait"
    /\ rpc' = [rpc EXCEPT ![s] = "sq_test"]
    /\ UNCHANGED <<drive, decoder, sm, rloc, written, inbound, cb>>

\* The state after connect() has returned True on a new manager
RelayConnected ==
    /\ sm = [SerialManager EXCEPT !.state = "connected", !.serial = "open",
                                  !.read_thread = Some("r1"),
                                  !.poll_thread = Some("s1")]
    /\ rpc = [t \in RelayThreads |->
                IF t \in Apps THEN "idle"
                ELSE IF t = "r1" THEN "rd_test"
                ELSE IF t = "s1" THEN "sq_test" ELSE "off"]
    /\ rloc = [t \in RelayThreads |->
                 IF t = "u1"
                 THEN [NoLocals EXCEPT !.op = "connect", !.ret = Some(TRUE),
                                       !.calls = MaxRelayCalls]
                 ELSE IF t = "s1" THEN [NoLocals EXCEPT !.calls = MaxPolls]
                 ELSE NoLocals]
    /\ written = <<>>
    /\ inbound = <<>>
    /\ cb = [NoCallbacks EXCEPT !.connection = <<"connecting", "connected">>]

InRelay == FreshDrive /\ DecoderIdle /\ RelayConnected

AppStep(u) ==
    \/ \E c \in RelayCommands : RelaySendCommand(u, c)
    \/ RelayConnectCall(u)
    \/ RelayDisconnectCall(u)
    \/ RelayStop(u)
    \/ RelayJoin(u)
    \/ RelayClose(u)
    \/ RelayConnecting(u)
    \/ RelayOpen(u)
    \/ RelayOpenFails(u)

ReaderStep(r) ==
    \/ ReadLoopTest(r)
    \/ ReadLoopTake(r)
    \/ ReadLoopSend(r)
    \/ ReadLoopRead(r)
    \/ ReadLoopReadFails(r)

StatusPollerStep(s) ==
    \/ StatusPollTest(s)
    \/ StatusPollSend(s)
    \/ StatusPollWait(s)

NextRelay ==
    \/ \E u \in Apps : AppStep(u)
    \/ \E r \in Readers : ReaderStep(r)
    \/ \E s \in StatusPollers : StatusPollerStep(s)

\* The command relay of a connected manager: the application, the read
\* loops and the status poll loops
SpecRelay == InRelay /\ [][NextRelay]_vars

\* the bytes a device may send during a connection
Streams == UNION {[1..n -> Whitespace \cup Noise] : n \in 0..MaxStream}

\* A connected manager whose device is sending some stream of bytes; the
\* application makes no call and remembers what the device sends
InLines ==
    /\ FreshDrive
    /\ DecoderIdle
    /\ inbound \in Streams
    /\ sm = [SerialManager EXCEPT !.state = "connected", !.serial = "open",
                                  !.read_thread = Some("r1"),
                                  !.poll_thread = Some("s1")]
    /\ rpc = [t \in RelayThreads |->
                IF t \in Apps THEN "idle"
                ELSE IF t = "r1" THEN "rd_test"
                ELSE IF t = "s1" THEN "sq_test" ELSE "off"]
    /\ rloc = [t \in RelayThreads |->
                 IF t = "u1"
                 THEN [NoLocals EXCEPT !.op = "connect", !.ret = Some(TRUE),
                                       !.arg = Some(inbound)]
                 ELSE IF t = "s1" THEN [NoLocals EXCEPT !.calls = MaxPolls]
                 ELSE NoLocals]
    /\ written = <<>>
    /\ cb = [NoCallbacks EXCEPT !.connection = <<"connecting", "connected">>]

NextLines ==
    \E r \in Readers :
        \/ ReadLoopTest(r)
        \/ ReadLoopTake(r)
        \/ ReadLoopRead(r)
        \/ ReadLoopLines(r)

\* The read loop receiving a stream, in every way the reads can cut it
SpecLines == InLines /\ [][NextLines]_vars

\* the lines the parser is given: the schema's words in order with any of
\* them absent (the empty line among them); complete lines with two
\* neighbours exchanged; complete lines after a word of noise or with a
\* carriage return at the end
ParserLines ==
    LET Opt(k) == SchemaWords[k] \cup {<<>>}
        Pack(ws) == SelectSeq(ws, LAMBDA w : w # <<>>)
        SchemaLines ==
            {Pack(<<p, m, s, h, w, e, vj, vm>>) :
                p \in Opt(1), m \in Opt(2), s \in Opt(3), h \in Opt(4),
                w \in Opt(5), e \in Opt(6), vj \in Opt(7), vm \in Opt(8)}
        FullLines == {l \in SchemaLines : Len(l) = 8}
        Swapped(l, k) == [l EXCEPT ![k] = l[k + 1], ![k + 1] = l[k]]
    IN  SchemaLines
        \cup {Swapped(l, k) : l \in FullLines, k \in 1..7}
        \cup {<<n>> \o l : n \in Noise, l \in FullLines}
        \cup {Append(l, CR) : l \in FullLines}

\* A new manager and a line that is about to be parsed
InParser ==
    /\ FreshDrive
    /\ DecoderIdle
    /\ sm = SerialManager
    /\ rpc = [t \in RelayThreads |-> IF t \in Apps THEN "idle" ELSE "off"]
    /\ \E line \in ParserLines :
         rloc = [t \in RelayThreads |->
                   IF t = "u1"
                   THEN [NoLocals EXCEPT !.arg = Some(line), !.calls = 1]
                   ELSE NoLocals]
    /\ written = <<>>
    /\ inbound = <<>>
    /\ cb = NoCallbacks

\* ResponseParser.parse_status(line) is called
ParseStatusCall(u) ==
    /\ rpc[u] = "idle"
    /\ rloc[u].op = "none"
    /\ rloc[u].calls > 0
    /\ rloc' = [rloc EXCEPT ![u].op = "parse_status",
                            ![u].ret = Some(ParseStatus(rloc[u].arg[1])),
                            ![u].calls = @ - 1]
    /\ UNCHANGED <<drive, decoder, sm, rpc, written, inbound, cb>>

\* _process_response(line) is called on the manager, as its tests do: it
\* returns nothing, or parse_status's ValueError leaves it
ProcessResponseCall(u) ==
    /\ rpc[u] = "idle"
    /\ rloc[u].op = "none"
    /\ rloc[u].calls > 0
    /\ ProcessResponse(rloc[u].arg[1])
    /\ rloc' = [rloc EXCEPT ![u].op = "_process_response",
                            ![u].ret = Some(Returns(
                                IF ParseStatus(rloc[u].arg[1]).kind = "raise"
                                THEN "raise" ELSE "none", WinchStatus)),
                            ![u].calls = @ - 1]
    /\ UNCHANGED <<drive, decoder, rpc, written, inbound>>

NextParse ==
    \E u \in Apps :
        \/ ParseStatusCall(u)
        \/ ProcessResponseCall(u)

\* The status parser, over complete, truncated and disordered lines
SpecParse == InParser /\ [][NextParse]_vars

\* A new manager; one application thread connects and disconnects while
\* another sends commands
InSend ==
    /\ FreshDrive
    /\ DecoderIdle
    /\ sm = SerialManager
    /\ rpc = [t \in RelayThreads |-> IF t \in Apps THEN "idle" ELSE "off"]
    /\ rloc = [t \in RelayThreads |->
                 IF t = "u1" THEN [NoLocals EXCEPT !.calls = MaxConnects]
                 ELSE IF t = "u2" THEN [NoLocals EXCEPT !.calls = MaxSends]
                 ELSE NoLocals]
    /\ written = <<>>
    /\ inbound = <<>>
    /\ cb = NoCallbacks

SessionStep(u) ==
    \/ RelayConnectCall(u)
    \/ RelayDisconnectCall(u)
    \/ RelayStop(u)
    \/ RelayJoin(u)
    \/ RelayClose(u)
    \/ RelayConnecting(u)
    \/ RelayOpen(u)
    \/ RelayOpenFails(u)

NextSend ==
    \/ SessionStep("u1")
    \/ RelaySendCommand("u2", "ST")
    \/ \E r \in Readers : ReaderStep(r)
    \/ \E s \in StatusPollers : StatusPollerStep(s)

\* The connection state machine of the relay, with commands sent in every
\* state
SpecSend == InSend /\ [][NextSend]_vars

\* a status line as the device sends it
StatusLine ==
    <<<<"POS", "7">>, <<"MODE", "IDLE">>, <<"SPD", "1", ".", "2", "5">>,
      <<"HOME", "N">>, <<"WELL", "N">>, <<"ESTOP", "0">>>>

\* A connected manager whose device has answered the first status request:
\* the line was read, processed and kept as the last status
Informed ==
    /\ FreshDrive
    /\ DecoderIdle
    /\ sm = [SerialManager EXCEPT !.state = "connected", !.serial = "open",
                                  !.read_thread = Some("r1"),
                                  !.poll_thread = Some("s1"),
                                  !.last_status =
                                      Some(ParseStatus(StatusLine).status)]
    /\ rpc = [t \in RelayThreads |->
                IF t \in Apps THEN "idle"
                ELSE IF t = "r1" THEN "rd_test"
                ELSE IF t = "s1" THEN "sq_wait" ELSE "off"]
    /\ rloc = [t \in RelayThreads |->
                 IF t = "u1"
                 THEN [NoLocals EXCEPT !.op = "connect", !.ret = Some(TRUE),
                                       !.calls = MaxSends]
                 ELSE IF t = "s1" THEN [NoLocals EXCEPT !.calls = MaxPolls]
                 ELSE NoLocals]
    /\ written = <<<<"s1", StatusRequest>>>>
    /\ inbound = <<>>
    /\ cb = [NoCallbacks EXCEPT !.connection = <<"connecting", "connected">>,
                                !.response = <<StatusLine>>,
                                !.status = 1]

\* A new manager, or a connected one that holds a status
InSession ==
    \/ /\ FreshDrive
       /\ DecoderIdle
       /\ sm = SerialManager
       /\ rpc = [t \in RelayThreads |-> IF t \in Apps THEN "idle" ELSE "off"]
       /\ rloc = [t \in RelayThreads |->
                    IF t = "u1" THEN [NoLocals EXCEPT !.calls = MaxSends]
                    ELSE NoLocals]
       /\ written = <<>>
       /\ inbound = <<>>
       /\ cb = NoCallbacks
    \/ Informed

NextSession ==
    \/ SessionStep("u1")
    \/ \E r \in Readers :
         \/ ReadLoopTest(r)
         \/ ReadLoopTake(r)
         \/ ReadLoopRead(r)
         \/ ReadLoopReadFails(r)
    \/ \E s \in StatusPollers : StatusPollerStep(s)

\* The connection state machine of the relay
SpecSession == InSession /\ [][NextSession]_vars

\* The state after connect() and a jog_start that returned True: the jog
\* is running
Jogging ==
    /\ now = StartTime
    /\ connected = TRUE
    /\ socket = TRUE
    /\ lock = NoThread
    /\ polling = FALSE
    /\ poll_thread = None
    /\ status = [STAC5Status EXCEPT !.connected = TRUE, !.motor_enabled = TRUE,
                                    !.is_moving = TRUE]
    /\ last_move_time = StartTime
    /\ last_move_command_time = 0
    /\ jog_active = TRUE
    /\ jog_stop_time = 0
    /\ pc = [t \in Threads |-> IF t \in Callers THEN "idle" ELSE "off"]
    /\ op = [t \in Callers |-> "none"]
    /\ arg = [t \in Callers |-> 0]
    /\ io = [t \in Threads |-> IdleIO]
    /\ loc = [t \in Threads |-> IF t \in Callers THEN NoLoc ELSE PollLoc]
    /\ sent = [t \in Callers |-> <<>>]
    /\ ret = [t \in Callers |-> None]
    /\ errs = [t \in Threads |-> 0]
    /\ calls = MaxCalls
    /\ wire = [cj |-> TRUE, sj |-> 0, di |-> 1]
    /\ hist = [jog_stop_at |-> 0, move_at |-> 0,
               fault_code |-> "0000", fault_notes |-> 0, told |-> {}]
    /\ RelayIdle
    /\ DecoderIdle

\* jog_start, disconnect and connect of one caller
NextRejog ==
    \/ \E d \in Directions : JogStartCall("c1", d)
    \/ JogStartAccept("c1")
    \/ JogStartSpeed("c1")
    \/ JogStartCommence("c1")
    \/ JogStartResult("c1")
    \/ DisconnectCall("c1")
    \/ ConnectCall("c1")
    \/ StopPollingFlag("c1")
    \/ DisconnectClose("c1")
    \/ ConnectOpen("c1")
    \/ ConnectRefused("c1")
    \/ InitDeceleration("c1")
    \/ InitEnable("c1")
    \/ InitSync("c1")
    \/ SyncPositions("c1")
    \/ SyncDone("c1")
    \/ Return("c1")
    \/ SendStep("c1")

\* A caller jogging, disconnecting and connecting again
SpecRejog == (Connected \/ Jogging) /\ [][NextRejog]_vars

\* ---------------------------------------------------------------- claims

HasFrame(s, m) == \E i \in 1..Len(s) : s[i][1] = m

\* C1: at most one request/response exchange is in progress at any time: no
\* two threads are between the write of their frame and the end of its read.
C1_OneExchange ==
    \A t, u \in Threads : io[t].st = "read" /\ io[u].st = "read" => t = u

\* C1: a caller waits for the lock while the poll thread's exchange is running
C1_Witness ==
    \E t \in Callers, u \in Pollers :
        io[t].st = "lock" /\ io[u].st = "read" /\ lock = u

\* C2: on a connected manager that is not jogging, a jog_start called less
\* than the lockout after the last jog_stop returns False and hands over no
\* command; called at least the lockout after it (no other stop command since)
\* it is accepted, and it returns True when the drive answers CJ.
C2_JogLockout ==
    [][\A t \in Callers :
         /\ (pc[t] = "idle" /\ op'[t] = "jog_start" /\ connected /\ ~jog_active) =>
              /\ (now - hist.jog_stop_at < JogDecelLockout) =>
                    /\ pc'[t] = "done"
                    /\ ret'[t] = Some(FALSE)
                    /\ sent'[t] = <<>>
                    /\ io'[t] = IdleIO
              /\ (now - hist.jog_stop_at >= JogDecelLockout
                    /\ jog_stop_time = hist.jog_stop_at) =>
                    pc'[t] = "js_accept"
         /\ (pc[t] = "js_cj" /\ pc'[t] = "done" /\ io[t].resp # None) =>
              ret'[t] = Some(TRUE)]_vars

\* C2: a jog_start was rejected inside the lockout that a jog_stop started
C2_Witness ==
    \E t \in Callers :
        /\ pc[t] = "done" /\ op[t] = "jog_start" /\ ret[t] = Some(FALSE)
        /\ sent[t] = <<>>
        /\ connected /\ ~jog_active
        /\ hist.jog_stop_at >= StartTime
        /\ now - hist.jog_stop_at < JogDecelLockout

\* C3: a move call (move_relative, move_to_position, go_home, go_well) issued
\* less than the minimum interval after the previous move that passed the rate
\* limit returns False; issued at least the interval after it, it passes the
\* rate limit.
C3_RateLimit ==
    [][\A t \in Callers :
         (pc[t] = "idle" /\ op'[t] \in MoveOps) =>
            /\ (now - hist.move_at < MinCommandInterval) =>
                  pc'[t] = "done" /\ ret'[t] = Some(FALSE)
            /\ (now - hist.move_at >= MinCommandInterval) =>
                  \/ pc'[t] \in {"mr_stamp", "mp_stamp"}
                  \/ op'[t] = "go_home" /\ status.home_position = None
                  \/ op'[t] = "go_well" /\ status.well_position = None]_vars

\* C3: a move was rejected inside the interval that an earlier move started
C3_Witness ==
    \E t \in Callers :
        /\ pc[t] = "done" /\ op[t] \in {"move_relative", "move_to_position"}
        /\ ret[t] = Some(FALSE) /\ ~loc[t].accepted
        /\ hist.move_at >= StartTime
        /\ now - hist.move_at < MinCommandInterval

\* C4: a rejected command (jog_start while a jog is active or inside the
\* lockout, a move inside the rate-limit interval) returns False, hands no
\* command to the drive, makes no error callback and leaves the manager's
\* state as it was: jog-active flag, jog-stop timestamp, both move timestamps,
\* connection state and DriveStatus.
C4_RejectionNoEffect ==
    [][\A t \in Callers :
         (/\ pc[t] = "idle"
          /\ op'[t] \in {"jog_start"} \cup MoveOps
          /\ \/ op'[t] = "jog_start" /\ (jog_active \/ now - jog_stop_time < JogDecelLockout)
             \/ op'[t] \in MoveOps /\ now - last_move_command_time < MinCommandInterval) =>
            /\ pc'[t] = "done"
            /\ ret'[t] = Some(FALSE)
            /\ sent'[t] = <<>>
            /\ io'[t] = IdleIO
            /\ errs'[t] = 0
            /\ UNCHANGED <<jog_active, jog_stop_time, last_move_time,
                           last_move_command_time, status, connected, socket,
                           lock, wire>>]_vars

\* C4: a jog_start was rejected because a jog is active
C4_Witness ==
    \E t \in Callers :
        /\ pc[t] = "done" /\ op[t] = "jog_start" /\ ret[t] = Some(FALSE)
        /\ ~loc[t].accepted /\ sent[t] = <<>> /\ errs[t] = 0
        /\ jog_active /\ status.is_moving

\* C5: whenever a call has transmitted the absolute-feed command FP, it has
\* transmitted a step set-point command SP before it.
C5_SyncBeforeFeed ==
    \A t \in Callers :
        \A j \in 1..Len(sent[t]) :
            sent[t][j][1] = "FP" => \E i \in 1..(j - 1) : sent[t][i][1] = "SP"

\* C6: a move_to_position whose encoder read equals the target returns True
\* there and then: it has transmitted no VE, SP or FP, and it leaves the
\* motion flag and the fast-polling timestamp as they were.
C6_AtTargetNoMotion ==
    [][\A t \in Callers :
         (/\ pc[t] = "mp_ep" /\ pc'[t] # "mp_ep"
          /\ Len(io[t].resp) = 2 /\ io[t].resp[2] = arg[t]) =>
            /\ pc'[t] = "done"
            /\ ret'[t] = Some(TRUE)
            /\ io'[t] = IdleIO
            /\ sent'[t] = sent[t]
            /\ ~HasFrame(sent[t], "VE") /\ ~HasFrame(sent[t], "SP")
            /\ ~HasFrame(sent[t], "FP")
            /\ UNCHANGED <<status, last_move_time>>]_vars

\* C6: a move_to_position returned at once, the encoder being at the target
C6_Witness ==
    \E t \in Callers :
        /\ pc[t] = "done" /\ op[t] = "move_to_position" /\ ret[t] = Some(TRUE)
        /\ loc[t].current = Some(arg[t])
        /\ HasFrame(sent[t], "EP") /\ ~HasFrame(sent[t], "FP")

\* the frames of jog_start(d), in the order of lines 466-473
JogFrames(d) ==
    <<<<"DI", IF d >= 0 THEN 1 ELSE -1>>, <<"JS", status.jog_velocity>>, <<"CJ">>>>

RECURSIVE IsSubsequence(_, _)
\* s keeps some of the elements of f, in f's order
IsSubsequence(s, f) ==
    IF s = <<>> THEN TRUE
    ELSE IF f = <<>> THEN FALSE
    ELSE IF Head(s) = Head(f) THEN IsSubsequence(Tail(s), Tail(f))
    ELSE IsSubsequence(s, Tail(f))

\* C7 as stated: an accepted jog_start transmits exactly DI, JS, CJ, and the
\* jog-active flag is true whenever one of them is on the wire.
C7_Original ==
    \A t \in Callers :
        (op[t] = "jog_start" /\ loc[t].accepted) =>
            /\ io[t].st = "read" => jog_active
            /\ pc[t] = "done" => sent[t] = JogFrames(arg[t])

\* C7, amended: an accepted jog_start has transmitted nothing before it sets
\* the jog-active flag; what it transmits is DI, JS, CJ in that order, less
\* the commands skipped with the connection down, and CJ was transmitted when
\* it returns True; from the acceptance to the result the flag is true
\* unless a concurrent jog_stop, stop, stop_kill or roll-back cleared it.
C7_FlagBeforeFrames ==
    \A t \in Callers :
        /\ pc[t] = "js_accept" => sent[t] = <<>> /\ io[t] = IdleIO
        /\ (op[t] = "jog_start" /\ loc[t].accepted) =>
              /\ IsSubsequence(sent[t], JogFrames(arg[t]))
              /\ (pc[t] \in {"js_di", "js_js", "js_cj"} /\ ~loc[t].cleared) => jog_active
              /\ (pc[t] = "done" /\ ret[t] = Some(TRUE)) => HasFrame(sent[t], "CJ")
        /\ (op[t] = "jog_start" /\ ~loc[t].accepted) => sent[t] = <<>>

\* C7: CJ is on the wire, after DI and JS, with the flag true while the poll
\* thread is running
C7_Witness ==
    \E t \in Callers :
        /\ pc[t] = "js_cj" /\ io[t].st = "read" /\ jog_active
        /\ sent[t] = JogFrames(arg[t])
        /\ \E p \in Pollers : pc[p] # "off"

\* C8: when CJ gets no response, jog_start returns False with the jog-active
\* flag false again, the motion flag and the fast-polling timestamp untouched.
C8_Rollback ==
    [][\A t \in Callers :
         (pc[t] = "js_cj" /\ pc'[t] # "js_cj" /\ io[t].resp = None) =>
            /\ pc'[t] = "done"
            /\ ret'[t] = Some(FALSE)
            /\ ~jog_active'
            /\ UNCHANGED <<status, last_move_time>>]_vars

\* C8: a jog_start was accepted, its CJ was transmitted and went unanswered
C8_Witness ==
    \E t \in Callers :
        /\ pc[t] = "done" /\ op[t] = "jog_start" /\ loc[t].accepted
        /\ HasFrame(sent[t], "CJ")
        /\ ret[t] = Some(FALSE) /\ ~jog_active /\ ~status.is_moving

\* C9: jog_stop returns True in every state, and by the time it hands SJ over
\* it has cleared the jog-active flag and recorded the stop time: the step
\* that starts it does both and transmits nothing.
C9_StopClearsFirst ==
    [][\A t \in Callers :
         /\ (pc[t] = "idle" /\ op'[t] = "jog_stop") =>
               /\ ~jog_active'
               /\ jog_stop_time' = now
               /\ sent'[t] = <<>>
               /\ wire' = wire
         /\ (op[t] = "jog_stop" /\ pc'[t] = "done") => ret'[t] = Some(TRUE)]_vars

\* C9: jog_stop on a running jog: SJ is waiting for the lock, not yet
\* written, and the flag is already false
C9_Witness ==
    \E t \in Callers :
        /\ op[t] = "jog_stop" /\ io[t].st = "lock" /\ sent[t] = <<>>
        /\ wire.cj /\ wire.sj = 0
        /\ ~jog_active /\ jog_stop_time = hist.jog_stop_at

\* C10 as stated: after a jog was commenced at most one SJ is transmitted
\* until the next CJ.
C10_Original == wire.cj => wire.sj <= 1

\* C10, amended: jog_stop sends SJ unconditionally, so a duplicate jog_stop
\* transmits a second SJ: every jog_stop called on a connected manager hands
\* SJ to send_command whatever the jog state, and a call transmits SJ at most
\* once.
C10_StopAlwaysSends ==
    [][\A t \in Callers :
         /\ (pc[t] = "idle" /\ op'[t] = "jog_stop" /\ connected /\ socket) =>
               io'[t] = [st |-> "lock", cmd |-> <<"SJ">>, resp |-> None, exc |-> "none"]
         /\ op'[t] = "jog_stop" =>
               sent'[t] \in {<<>>, <<<<"SJ">>>>}]_vars

\* C10: a second SJ was transmitted for the same jog
C10_Witness ==
    \E t \in Callers :
        /\ op[t] = "jog_stop" /\ sent[t] = <<<<"SJ">>>>
        /\ wire.cj /\ wire.sj = 2

\* C11: two move calls running concurrently within one minimum interval never
\* both pass the rate limit and both transmit their feed command.
C11_NoDoublePass ==
    \A t, u \in Callers :
        (/\ t # u
         /\ op[t] \in MoveOps /\ op[u] \in MoveOps
         /\ loc[t].accepted /\ loc[u].accepted
         /\ loc[t].now - loc[u].now < MinCommandInterval
         /\ loc[u].now - loc[t].now < MinCommandInterval) =>
            ~(HasFrame(sent[t], "FL") /\ HasFrame(sent[u], "FL"))

C13_Original ==
    \A t \in Callers :
        (io[t].st = "done" /\ io[t].exc = "timeout") =>
            ~connected /\ ~status.connected /\ errs[t] >= 1

\* C13, amended: a read timeout is not handled as a transport fault: the step
\* in which the read times out returns None from send_command, releases the
\* lock, leaves both connection flags and the socket as they were and invokes
\* no error callback.
C13_TimeoutReturnsNone ==
    [][\A t \in Callers :
         (io[t].st = "read" /\ io'[t].st = "done" /\ io'[t].exc = "timeout") =>
            /\ io'[t].resp = None
            /\ lock' = NoThread
            /\ errs' = errs
            /\ UNCHANGED <<connected, socket, status>>]_vars

\* C13: the CJ of a jog_start timed out; the manager is still connected and
\* no error was reported
C13_Witness ==
    \E t \in Callers :
        /\ pc[t] = "js_cj" /\ io[t].st = "done" /\ io[t].exc = "timeout"
        /\ sent[t] = JogFrames(arg[t])
        /\ connected /\ status.connected /\ errs[t] = 0

\* C14: once disconnect() has returned, every DriveStatus field has its
\* construction-time default.
C14_DisconnectResetsAll ==
    \A t \in Callers :
        (op[t] = "disconnect" /\ pc[t] = "done") => status = STAC5Status

\* C15: a connect() that returns True, the connection being up, has
\* transmitted AC, DE, ME, EP and then SP, in that order.
C15_InitSequence ==
    \A t \in Callers :
        (op[t] = "connect" /\ pc[t] = "done" /\ ret[t] = Some(TRUE) /\ connected) =>
            /\ Len(sent[t]) = 5
            /\ sent[t][1] = <<"AC", DefaultAcceleration>>
            /\ sent[t][2] = <<"DE", DefaultDeceleration>>
            /\ sent[t][3] = <<"ME">>
            /\ sent[t][4] = <<"EP">>
            /\ sent[t][5][1] = "SP"

\* m is the product p x 2.5 truncated toward zero
IsTruncatedProduct(m, p) ==
    LET am == IF m >= 0 THEN m ELSE -m
        ap == IF p >= 0 THEN p ELSE -p IN
    /\ m * p >= 0
    /\ 2 * am <= 5 * ap
    /\ 5 * ap < 2 * am + 2

\* C16: the argument of every SP command is the encoder value just read times
\* 2.5 truncated toward zero, and the argument of every FP command is the
\* target times 2.5 truncated toward zero, for positive, zero and negative
\* values alike.
C16_TruncatesTowardZero ==
    [][\A t \in Callers :
         /\ (pc[t] = "sy_ep" /\ pc'[t] = "sy_sp") =>
               /\ io'[t].cmd[1] = "SP"
               /\ IsTruncatedProduct(io'[t].cmd[2], io[t].resp[2])
         /\ (pc[t] = "mp_ve" /\ pc'[t] = "mp_fp") =>
               /\ io'[t].cmd[1] = "FP"
               /\ IsTruncatedProduct(io'[t].cmd[2], arg[t])]_vars

\* C16: a call has transmitted SP-7 (the encoder at -3) and then FP-2 (the
\* target -1)
C16_Witness ==
    \E t \in Callers :
        /\ arg[t] = -1
        /\ \E i, j \in 1..Len(sent[t]) :
              i < j /\ sent[t][i] = <<"SP", -7>> /\ sent[t][j] = <<"FP", -2>>

\* C17: stop() hands ST and stop_kill() hands SK to the transport, nothing
\* else; when either returns, answered or not, the jog-active flag and the
\* motion flag are false and the lockout is restarted, and the result is True
\* exactly when send_command returned an answer.
C17_StopUpdate ==
    [][\A t \in Callers :
         /\ (pc[t] = "idle" /\ op'[t] \in {"stop", "stop_kill"}) =>
               io'[t].cmd = (IF op'[t] = "stop" THEN <<"ST">> ELSE <<"SK">>)
         /\ (pc[t] = "st_cmd" /\ pc'[t] = "done") =>
               /\ ~jog_active'
               /\ ~status'.is_moving
               /\ jog_stop_time' = now
               /\ ret'[t] = Some(io[t].resp # None)
               /\ sent[t] \in {<<>>, <<io[t].cmd>>}
               /\ io[t].resp # None => sent[t] = <<io[t].cmd>>]_vars

\* C17: stop_kill() on a running jog returned False, the drive not having
\* answered SK; the jog-active and motion flags are false
C17_Witness ==
    \E t \in Callers :
        /\ pc[t] = "done" /\ op[t] = "stop_kill" /\ ret[t] = Some(FALSE)
        /\ sent[t] = <<<<"SK">>>>
        /\ wire.cj /\ wire.sj = 0
        /\ ~jog_active /\ ~status.is_moving /\ jog_stop_time = now

\* the saved position that method o goes to
SavedFor(o) == IF o = "go_home" THEN status.home_position ELSE status.well_position

\* C18: go_home / go_well without a saved position returns False at once,
\* with nothing handed to the transport, no error callback and the rate-limit
\* timestamp untouched; with a saved position it runs move_to_position on that
\* position: rejected inside the rate-limit interval, otherwise stamped, and
\* any FP it transmits carries the translation of the saved position.
C18_GoSaved ==
    [][\A t \in Callers :
         /\ (pc[t] = "idle" /\ op'[t] \in {"go_home", "go_well"}) =>
               IF SavedFor(op'[t]) = None
                 THEN /\ pc'[t] = "done" /\ ret'[t] = Some(FALSE)
                      /\ sent'[t] = <<>> /\ io'[t] = IdleIO /\ errs'[t] = 0
                      /\ UNCHANGED <<last_move_command_time, last_move_time, status>>
                 ELSE /\ arg'[t] = SavedFor(op'[t])[1]
                      /\ IF now - last_move_command_time < MinCommandInterval
                           THEN pc'[t] = "done" /\ ret'[t] = Some(FALSE)
                           ELSE pc'[t] = "mp_stamp"
         /\ (op[t] \in {"go_home", "go_well"} /\ pc[t] = "mp_stamp" /\ pc'[t] # "mp_stamp") =>
               last_move_command_time' = loc[t].now /\ loc[t].now = hist.move_at
         /\ (op[t] \in {"go_home", "go_well"} /\ pc[t] = "mp_ve" /\ pc'[t] = "mp_fp") =>
               io'[t].cmd = <<"FP", EncoderToMotor(SavedFor(op[t])[1])>>]_vars

\* C18: go_well() found nothing saved and returned False on a connected
\* manager, the rate-limit window left open
C18_Witness ==
    \E t \in Callers :
        /\ pc[t] = "done" /\ op[t] = "go_well" /\ ret[t] = Some(FALSE)
        /\ status.well_position = None /\ status.home_position # None
        /\ connected /\ sent[t] = <<>> /\ errs[t] = 0
        /\ last_move_command_time = 0

\* C19: the cycle that the poll loop starts is an in-motion cycle exactly when
\* the motion flag is set or less than the motion window has passed since the
\* last jog or move command that the drive answered; an in-motion cycle reads
\* the position with IE and ends in the fast sleep, any other cycle reads it
\* with EP and ends in the idle sleep.
C19_MotionMode ==
    [][/\ \A p \in Pollers :
            /\ (pc[p] = "pl_test" /\ pc'[p] = "pl_pos") =>
                  LET m == status.is_moving \/ now - last_move_time < MotionWindow IN
                    /\ loc'[p].in_motion_mode = m
                    /\ io'[p].cmd = (IF m THEN <<"IE">> ELSE <<"EP">>)
            /\ (pc[p] = "pl_pos" /\ pc'[p] # "pl_pos") =>
                  loc[p].in_motion_mode = (io[p].cmd = <<"IE">>)
            /\ (pc[p] \in {"pl_pos", "pl_al"} /\ pc'[p] = "pl_test") =>
                  loc'[p].slept = (IF loc[p].in_motion_mode THEN FastInterval
                                                           ELSE PollInterval)
       /\ last_move_time' # last_move_time =>
             /\ last_move_time' = now
             /\ \E t \in Callers :
                   pc[t] \in {"js_cj", "mr_fl", "mp_fp"} /\ io[t].resp # None]_vars

\* C19: the motion window of the last move has just run out with the motion
\* flag false: the cycle in progress is an idle one (EP), the first after
\* in-motion cycles that skipped the alarm read
C19_Witness ==
    \E p \in Pollers :
        /\ pc[p] = "pl_pos" /\ io[p].cmd = <<"EP">> /\ ~loc[p].in_motion_mode
        /\ loc[p].since_alarm > 0
        /\ ~status.is_moving
        /\ last_move_time = RecentMove /\ now - last_move_time = MotionWindow

\* C20: a poll cycle goes on to the full status refresh (SC, then AL) exactly
\* when it is an idle cycle or the 5th consecutive in-motion cycle since the
\* last refresh; so never more than 4 cycles in a row end without an alarm
\* read.
C20_FullRefresh ==
    [][\A p \in Pollers :
         /\ (pc[p] = "pl_pos" /\ pc'[p] # "pl_pos") =>
               IF ~loc[p].in_motion_mode \/ loc[p].motion_run = FullPollEvery
                 THEN pc'[p] = "pl_sc" /\ io'[p].cmd = <<"SC">>
                 ELSE pc'[p] = "pl_test" /\ io'[p] = IdleIO
         /\ (pc[p] = "pl_sc" /\ pc'[p] # "pl_sc") =>
               pc'[p] = "pl_al" /\ io'[p].cmd = <<"AL">>
         /\ loc'[p].since_alarm < FullPollEvery
         /\ loc'[p].motion_run <= FullPollEvery]_vars

\* C20: the 5th in-motion cycle in a row is refreshing the status, four
\* cycles having ended without an alarm read
C20_Witness ==
    \E p \in Pollers :
        /\ pc[p] = "pl_sc" /\ io[p].cmd = <<"SC">>
        /\ loc[p].in_motion_mode
        /\ loc[p].motion_run = FullPollEvery
        /\ loc[p].since_alarm = FullPollEvery - 1

\* C21: within one run of the poll loop, an alarm read that returns a non-zero
\* code when the drive last reported all-clear (or had reported nothing yet)
\* makes exactly one error notification, and a read that returns the non-zero
\* code the drive reported last makes none.
C21_EdgeNotification ==
    [][\A p \in Pollers :
          (pc[p] = "pl_al" /\ pc'[p] = "pl_test" /\ ParseCode(Response(p)) # None) =>
             LET al == ParseCode(Response(p))[1] IN
               /\ (al # "0000" /\ hist.fault_code = "0000") => errs'[p] = errs[p] + 1
               /\ (al # "0000" /\ al = hist.fault_code) => errs'[p] = errs[p]]_vars

\* the poll loop has just notified the fault 0004, read after all-clear
C21_Witness ==
    /\ pc["p1"] = "pl_test"
    /\ loc["p1"].since_alarm = 0
    /\ loc["p1"].slept > 0
    /\ errs["p1"] = 1
    /\ hist.fault_code = "0004"
    /\ hist.fault_notes = 1

\* C22: while the drive keeps reporting one non-zero alarm code, the error
\* callback fires once for it, whatever is done in between (stop_polling and
\* start_polling included).
C22_OncePerOccurrence ==
    hist.fault_code # "0000" => hist.fault_notes = 1

\* C24: every poll cycle ends with exactly one invocation of the status
\* callback, and none is made before its end, whether or not the reads of the
\* cycle succeeded.
C24_PublishEveryCycle ==
    [][\A p \in Pollers :
          /\ pc'[p] \in {"pl_pos", "pl_sc", "pl_al"} => loc'[p].published = 0
          /\ (pc[p] \in {"pl_pos", "pl_al"} /\ pc'[p] = "pl_test") =>
                loc'[p].published = 1]_vars

\* a cycle in which the poll thread's own command raised has ended, the status
\* published
C24_Witness ==
    /\ pc["p1"] = "pl_test"
    /\ loc["p1"].published = 1
    /\ ~connected
    /\ errs["p1"] > 0

\* C23: the decoded message of a hexadecimal alarm code names every set bit
\* the table knows and reports generically every set bit it does not know,
\* also next to known bits; a non-hexadecimal code decodes to the generic
\* unknown message.
C23_NamesEveryBit ==
    alarm_out # None =>
       LET parts == {alarm_out[1][k] : k \in 1..Len(alarm_out[1])} IN
         IF alarm_in = NonHex THEN alarm_out[1] = <<"Unknown">>
         ELSE \A i \in 0..(MaxAlarmBits - 1) :
                 BitSet(alarm_in, i) =>
                    IF i < KnownAlarmBits THEN AlarmMessages[i + 1] \in parts
                                          ELSE "Unknown" \in parts

\* C26: every write to a field of the shared status is made by a thread that
\* holds the lock serializing command I/O.
C26_WritesUnderLock ==
    [][\A t \in Threads :
          (status' # status /\ (pc'[t] # pc[t] \/ io'[t] # io[t])) =>
             \/ lock = t
             \/ io[t].st = "lock" /\ io'[t].exc = "write"]_vars

\* C25: once stop_polling has cleared the polling flag, a poll loop that was
\* running starts no new cycle after the one in progress.
C25_NoNewCycle ==
    [][\A p \in Pollers :
          (pc[p] = "pl_test" /\ pc'[p] = "pl_pos") => p \notin hist.told]_vars

\* C27: only the read loop writes to the serial port: every command that
\* has been written to the port was written by a read thread, never by the
\* status poll thread or by a caller.
C27_OnlyReaderWrites ==
    \A k \in 1..Len(written) : written[k][1] \in Readers

\* the commands the read threads have written, in the order of the writes
RECURSIVE Relayed(_)
Relayed(w) ==
    IF w = <<>> THEN <<>>
    ELSE IF Head(w)[1] \in Readers THEN <<Head(w)[2]>> \o Relayed(Tail(w))
    ELSE Relayed(Tail(w))

\* C28: the commands send_command has accepted are written to the port in
\* the order they were enqueued and none more than once: what the read
\* threads have written keeps the order of what was accepted.
C28_FifoOnce ==
    \A u \in Apps :
        (\A v \in Apps \ {u} : rloc[v].accepted = <<>>)
        => IsSubsequence(Relayed(written), rloc[u].accepted)

RECURSIVE TerminatedLines(_, _)
\* the non-empty lines of s that a CR LF, an LF or a CR ends, in order; cur
\* is the line being collected
TerminatedLines(s, cur) ==
    IF s = <<>> THEN <<>>
    ELSE IF Head(s) \in Whitespace
         THEN (IF cur = <<>> THEN <<>> ELSE <<cur>>)
              \o TerminatedLines(Tail(s), <<>>)
    ELSE TerminatedLines(Tail(s), Append(cur, Head(s)))

\* the position of the last line feed of s, 0 without one
LastFeed(s) ==
    IF \E i \in 1..Len(s) : s[i] = LF
    THEN CHOOSE i \in 1..Len(s) : s[i] = LF /\ \A j \in (i + 1)..Len(s) : s[j] # LF
    ELSE 0

\* C29: however the reads cut the stream, once the read loop has taken in
\* all of it, every non-empty line ended by LF, CR LF or CR alone (up to the
\* last line feed received) has been dispatched once, as its own line and
\* in arrival order, and what follows the last line feed is still in the
\* buffer.
C29_EveryLineDispatched ==
    \A u \in Apps : \A r \in Readers :
        (rloc[u].op = "connect" /\ rloc[u].arg # None
         /\ rpc[r] = "rd_test" /\ inbound = <<>>)
        => LET stream == rloc[u].arg[1]
               k == LastFeed(stream)
           IN  /\ cb.response = TerminatedLines(SubSeq(stream, 1, k), <<>>)
               /\ rloc[r].buffer = SubSeq(stream, k + 1, Len(stream))

\* the keys of the words of a line, in order
KeysOf(line) ==
    LET ws == SelectSeq(line, LAMBDA w : w \notin Whitespace)
    IN  [i \in 1..Len(ws) |-> ws[i][1]]

\* the required tokens are all in the line, in the schema's order
RequiredAt(line, i) ==
    /\ i + 5 <= Len(KeysOf(line))
    /\ SubSeq(KeysOf(line), i, i + 5) = RequiredKeys

HasRequired(line) == \E i \in 1..Len(KeysOf(line)) : RequiredAt(line, i)

\* the word of the first complete status of a line that follows its POS
\* word at distance d
StatusWord(line, d) ==
    LET ws == SelectSeq(line, LAMBDA w : w \notin Whitespace)
        i == CHOOSE j \in 1..Len(ws) :
                 /\ RequiredAt(line, j)
                 /\ \A k \in 1..(j - 1) : ~RequiredAt(line, k)
    IN  IF i + d <= Len(ws) THEN ws[i + d] ELSE <<"">>

\* C30: parse_status returns None for the empty line and for every line
\* that lacks a required token or has them out of order; for a line with
\* all required tokens it returns a status whose home and well positions
\* are present exactly for Y@<n>, with the saved flags set accordingly and
\* VJOG and VMOVE defaulted when absent.  _process_response of a line that
\* is no status calls the response callback and neither calls the status
\* callback nor changes last_status.
C30_StrictParse ==
    \A u \in Apps :
        LET line == rloc[u].arg[1]
            r == rloc[u].ret[1]
            home == StatusWord(line, 3)
            well == StatusWord(line, 4)
        IN  /\ (rloc[u].op = "parse_status" /\ ~HasRequired(line))
               => r.kind = "none"
            /\ (rloc[u].op = "parse_status" /\ HasRequired(line))
               => /\ r.kind = "status"
                  /\ r.status.home_saved = (home[2] = "Y@")
                  /\ r.status.home_position # None <=> home[2] = "Y@"
                  /\ r.status.well_saved = (well[2] = "Y@")
                  /\ r.status.well_position # None <=> well[2] = "Y@"
                  /\ StatusWord(line, 6)[1] # "VJOG"
                     => r.status.max_jog_rps = DefaultJogSpeedRps
                  /\ StatusWord(line, 6)[1] \notin {"VJOG", "VMOVE"}
                     => r.status.max_move_rps = DefaultMoveSpeedRps
            /\ (rloc[u].op = "_process_response" /\ ~HasRequired(line))
               => /\ cb.response = <<line>>
                  /\ cb.status = 0
                  /\ sm.last_status = None

\* C31: send_command returns True and appends the command to the queue
\* exactly when the state is CONNECTED at the call; in DISCONNECTED,
\* CONNECTING and ERROR it returns False and leaves the queue as it is.
C31_AcceptsWhenConnected ==
    [][\A u \in Apps :
         (rloc'[u].op = "send_command" /\ rloc'[u].calls = rloc[u].calls - 1)
         => IF sm.state = "connected"
            THEN /\ rloc'[u].ret = Some(TRUE)
                 /\ sm'.command_queue
                      = Append(sm.command_queue, rloc'[u].arg[1])
            ELSE /\ rloc'[u].ret = Some(FALSE)
                 /\ sm'.command_queue = sm.command_queue]_vars

\* a command was refused while connect was between CONNECTING and the
\* opening of the port
C31_Witness ==
    /\ rloc["u2"].op = "send_command"
    /\ rloc["u2"].ret = Some(FALSE)
    /\ sm.state = "connecting"
    /\ rpc["u1"] = "cn_open"
    /\ sm.command_queue = <<>>

\* the connection callback has heard of the present state
StateReported ==
    /\ sm.state \in {"disconnected", "connecting", "connected", "error"}
    /\ IsConnected <=> sm.state = "connected"
    /\ cb.connection = <<>>
       => sm.state = "disconnected" /\ sm.last_status = None
    /\ cb.connection # <<>>
       => cb.connection[Len(cb.connection)] = sm.state

\* connect was reported as CONNECTING and since then only failures of the
\* background threads were reported
WasConnecting ==
    \E i \in 1..Len(cb.connection) :
        /\ cb.connection[i] = "connecting"
        /\ \A j \in (i + 1)..Len(cb.connection) : cb.connection[j] = "error"

\* C32: a new manager is DISCONNECTED without a last status; every change
\* of state is reported to the connection callback; is_connected holds only
\* in CONNECTED; connect, after CONNECTING, returns True in CONNECTED when
\* the port opens, or False in ERROR with one call of the error callback
\* when it does not; disconnect ends in DISCONNECTED with the last status
\* cleared, whatever the state was.
C32_StateMachine ==
    /\ []StateReported
    /\ [][/\ sm'.state # sm.state
             => cb'.connection = Append(cb.connection, sm'.state)
          /\ \A u \in Apps :
               /\ (rloc[u].op = "connect" /\ rloc[u].ret = None
                   /\ rloc'[u].ret # None)
                  => /\ WasConnecting
                     /\ \/ /\ rloc'[u].ret = Some(TRUE)
                           /\ sm'.state = "connected"
                           /\ sm'.serial = "open"
                           /\ cb'.error = cb.error
                        \/ /\ rloc'[u].ret = Some(FALSE)
                           /\ sm'.state = "error"
                           /\ cb'.error = cb.error + 1
               /\ (rpc[u] = "dc_close" /\ rpc'[u] # "dc_close")
                  => /\ sm'.state = "disconnected"
                     /\ sm'.last_status = None
                     /\ sm'.serial = "none"]_vars

\* disconnect has ended on a manager that held a status and was in ERROR
C32_Witness ==
    /\ rloc["u1"].op = "disconnect"
    /\ rpc["u1"] = "idle"
    /\ cb.status = 1
    /\ cb.error = 1
    /\ cb.connection[Len(cb.connection) - 1] = "error"
    /\ sm.state = "disconnected"
    /\ sm.last_status = None

\* C35: at most one read loop and at most one status poll loop of a manager
\* are running at any time.
C35_OneLoopEach ==
    /\ Cardinality({r \in Readers : ~Free(r)}) <= 1
    /\ Cardinality({p \in StatusPollers : ~Free(p)}) <= 1

\* C39: at the end of disconnect the command queue is empty, so that no
\* command accepted during one connection is written during a later one.
C39_QueueEmptied ==
    \A u \in Apps :
        (rloc[u].op = "disconnect" /\ rpc[u] = "idle")
        => sm.command_queue = <<>>

\* C34: at most one poll loop of a manager is running at any time.
C34_OnePollLoop ==
    Cardinality({p \in Pollers : pc[p] # "off"}) <= 1

\* C33: when connect returns True the manager is connected: is_connected()
\* and status.connected are true at that moment.
C33_TrueMeansConnected ==
    \A t \in Callers :
        (op[t] = "connect" /\ pc[t] = "done" /\ ret[t] = Some(TRUE))
        => connected /\ status.connected

\* C36: after disconnect the jog state machine is idle: when disconnect
\* returns, the jog-active flag is false.
C36_DisconnectStopsJog ==
    \A t \in Callers :
        (op[t] = "disconnect" /\ pc[t] = "done") => ~jog_active

\* C37: of two jog_start calls running concurrently on an idle, connected
\* manager at most one is accepted: with no stop ever called, the two calls
\* are never both in progress with their CJ transmitted.
C37_OneJogStartAccepted ==
    ~(/\ jog_stop_time = 0
      /\ \A t \in Callers :
            /\ op[t] = "jog_start" /\ pc[t] = "js_cj" /\ loc[t].accepted
            /\ HasFrame(sent[t], "CJ"))

\* C38: the DI register is not overwritten by another operation between the
\* DI of a motion operation and its start command: when a jog_start
\* transmits CJ the last DI the drive received is that call's direction, and
\* when a move_relative transmits FL it is that call's distance.
C38_DistanceKept ==
    [][\A t \in Callers :
         (Len(sent'[t]) = Len(sent[t]) + 1) =>
            LET c == sent'[t][Len(sent'[t])]
            IN  /\ (op[t] = "jog_start" /\ c = <<"CJ">>) =>
                      wire.di = (IF arg[t] >= 0 THEN 1 ELSE -1)
                /\ (op[t] = "move_relative" /\ c = <<"FL">>) =>
                      wire.di = arg[t]]_vars

\* C40: send_command on a manager that is not connected writes no frame and
\* reports no error, also when the connection was ended while the call
\* waited for the lock: once the connection is marked disconnected no step
\* of a send_command writes a frame or invokes the error callback.
C40_NothingAfterDisconnect ==
    [][~connected =>
          \A t \in Threads :
              /\ errs'[t] <= errs[t]
              /\ t \in Callers => Len(sent'[t]) <= Len(sent[t])]_vars

====
